---- MODULE Spec2Model ----
(***************************************************************************)
(* Non-local control transfer in eztex.                                    *)
(*                                                                         *)
(*  - src/csrc/wasm/sjlj_rt.c: the wasm setjmp/longjmp runtime             *)
(*    (__wasm_setjmp, __wasm_setjmp_test, __wasm_longjmp).                 *)
(*  - src/pkg/tectonic/src/bridge_core/support.c: the global fatal-abort   *)
(*    channel (jump_buffer, format_buf, _tt_abort, ttbc_global_engine_enter). *)
(*                                                                         *)
(* The specifications share the operators that model the runtime:          *)
(*   SpecSjlj   the runtime's three entry points called on a few jmp_bufs; *)
(*   SpecFrames the runtime under a call stack of activations;             *)
(*   Spec       a call stack of activations using the abort channel, whose *)
(*              setjmp/longjmp on jump_buffer are the runtime's;           *)
(*   SpecMsg    one protected region at a time, every message;             *)
(*   SpecEntry  entry points that follow the documented pattern;           *)
(*   SpecCheckpoint  the checkpoint callback.                              *)
(***************************************************************************)
EXTENDS Integers, Sequences, FiniteSets, TLC

\* ---------------------------------------------------------------- bounds
NumTokens == 2      \* addresses available for the invocation_id allocas
MaxLabel  == 2      \* setjmp call-site labels 0..MaxLabel (0 is reserved)
MaxVal    == 1      \* longjmp values -1..MaxVal
NumEnvs   == 1      \* jmp_bufs of SpecSjlj

NULL == 0

Tokens   == 1..NumTokens
TokenArg == Tokens \cup {NULL}
Labels   == 0..MaxLabel
Vals     == (-1)..MaxVal
Envs     == 1..NumEnvs

\* ------------------------------------------------- sjlj_rt.c: the runtime

\* struct jmp_buf_impl of a jmp_buf in zero-initialised (static) storage
ZeroJmpBuf ==
    [func_invocation_id |-> NULL, label |-> 0, arg |-> [env |-> NULL, val |-> 0]]

\* mutant: the label is not stored
M_setjmp_drops_label(jb, label, func_invocation_id) ==
    IF label = 0 \/ func_invocation_id = NULL
    THEN [trap |-> TRUE, jb |-> jb]
    ELSE [trap |-> FALSE, jb |-> [jb EXCEPT !.func_invocation_id = func_invocation_id]]

\* mutant: a marked jmp_buf keeps its first owner
M_setjmp_first_mark_wins(jb, label, func_invocation_id) ==
    IF label = 0 \/ func_invocation_id = NULL
    THEN [trap |-> TRUE, jb |-> jb]
    ELSE [trap |-> FALSE,
          jb   |-> IF jb.label # 0 THEN [jb EXCEPT !.label = label]
                   ELSE [jb EXCEPT !.func_invocation_id = func_invocation_id,
                                   !.label = label]]

\* mutant: the stores are made before the arguments are checked
M_setjmp_stores_then_checks(jb, label, func_invocation_id) ==
    [trap |-> (label = 0 \/ func_invocation_id = NULL),
     jb   |-> [jb EXCEPT !.func_invocation_id = func_invocation_id, !.label = label]]

\* mutant: an env that is marked is not marked again
M_setjmp_marks_once(jb, label, func_invocation_id) ==
    IF label = 0 \/ func_invocation_id = NULL
    THEN [trap |-> TRUE, jb |-> jb]
    ELSE [trap |-> FALSE,
          jb   |-> IF jb.label # 0 THEN jb
                   ELSE [jb EXCEPT !.func_invocation_id = func_invocation_id,
                                   !.label = label]]

\* __wasm_setjmp(env, label, func_invocation_id): jb is *env.
\* Result: whether it trapped, and the contents of *env afterwards.
__wasm_setjmp(jb, label, func_invocation_id) ==
    IF label = 0
    THEN [trap |-> TRUE, jb |-> jb]
    ELSE IF func_invocation_id = NULL
    THEN [trap |-> TRUE, jb |-> jb]
    ELSE [trap |-> FALSE,
          jb   |-> [jb EXCEPT !.func_invocation_id = func_invocation_id,
                              !.label = label]]

\* mutant: the invocation id is not compared
M_test_ignores_id(jb, func_invocation_id) ==
    IF jb.label = 0 \/ func_invocation_id = NULL
    THEN [trap |-> TRUE, ret |-> 0]
    ELSE [trap |-> FALSE, ret |-> jb.label]

\* mutant: the comparison is inverted
M_test_inverted(jb, func_invocation_id) ==
    IF jb.label = 0 \/ func_invocation_id = NULL
    THEN [trap |-> TRUE, ret |-> 0]
    ELSE IF jb.func_invocation_id # func_invocation_id
    THEN [trap |-> FALSE, ret |-> jb.label]
    ELSE [trap |-> FALSE, ret |-> 0]

\* mutant: a null invocation id is compared like any other
M_test_accepts_null(jb, func_invocation_id) ==
    IF jb.label = 0
    THEN [trap |-> TRUE, ret |-> 0]
    ELSE IF jb.func_invocation_id = func_invocation_id
    THEN [trap |-> FALSE, ret |-> jb.label]
    ELSE [trap |-> FALSE, ret |-> 0]

\* __wasm_setjmp_test(env, func_invocation_id): the returned label, or a trap.
__wasm_setjmp_test(jb, func_invocation_id) ==
    IF jb.label = 0
    THEN [trap |-> TRUE, ret |-> 0]
    ELSE IF func_invocation_id = NULL
    THEN [trap |-> TRUE, ret |-> 0]
    ELSE IF jb.func_invocation_id = func_invocation_id
    THEN [trap |-> FALSE, ret |-> jb.label]
    ELSE [trap |-> FALSE, ret |-> 0]

\* mutant: the whole jmp_buf is rewritten, the recorded target is lost
M_longjmp_resets_target(jb, env, val) ==
    [func_invocation_id |-> NULL, label |-> 0,
     arg |-> [env |-> env, val |-> IF val = 0 THEN 1 ELSE val]]

\* mutant: val 0 is not replaced by 1
M_longjmp_keeps_zero(jb, env, val) ==
    [jb EXCEPT !.arg = [env |-> env, val |-> val]]

\* __wasm_longjmp(env, val): the contents of *env when the exception is
\* thrown; the payload of the exception is the address of jb.arg.
__wasm_longjmp(jb, env, val) ==
    LET v == IF val = 0 THEN 1 ELSE val
    IN  [jb EXCEPT !.arg = [env |-> env, val |-> v]]

\* ------------------------------------------- support.c: formatted messages
\* Characters are their ASCII codes; NUL terminates a C string.

BUF_SIZE == 1024
NUL == 0

\* A char array is the sequence of its bytes: buf[i + 1] is the C buf[i].
ZeroBuf == [i \in 1..BUF_SIZE |-> NUL]

Min(a, b) == IF a <= b THEN a ELSE b

RECURSIVE Digits(_)
\* the decimal digits of a natural number
Digits(n) == IF n < 10 THEN <<48 + n>> ELSE Digits(n \div 10) \o <<48 + (n % 10)>>

\* the conversion %d of printf
FmtInt(v) == IF v < 0 THEN <<45>> \o Digits(-v) ELSE Digits(v)

RECURSIVE Format(_, _)
\* the text printf produces for a format with the directives %d and %%
Format(fmt, args) ==
    LET pcts == {i \in 1..Len(fmt) : fmt[i] = 37}
    IN  IF pcts = {} \/ (CHOOSE i \in pcts : \A j \in pcts : i <= j) = Len(fmt)
        THEN fmt
        ELSE LET i    == CHOOSE i \in pcts : \A j \in pcts : i <= j
                 rest == SubSeq(fmt, i + 2, Len(fmt))
             IN  IF fmt[i + 1] = 100
                 THEN SubSeq(fmt, 1, i - 1) \o FmtInt(Head(args)) \o Format(rest, Tail(args))
                 ELSE SubSeq(fmt, 1, i - 1) \o <<fmt[i + 1]>> \o Format(rest, args)

\* what formatting yields when a conversion fails (an encoding error): no
\* text, -1 standing where the characters would
EncodingError == <<-1>>

\* vsnprintf(buf, size, format, ap) where text is the formatted output:
\* at most size - 1 characters are stored, then a terminator; the return
\* value is the length of the whole text.  oob: a store fell outside buf.
\* When the formatting fails the return value is negative (buf is left as it
\* was here; C leaves its contents unspecified).
vsnprintf(buf, size, text) ==
    IF text = EncodingError THEN [buf |-> buf, len |-> -1, oob |-> FALSE]
    ELSE
    LET k == Min(Len(text), size - 1)
    IN  [buf |-> SubSeq(SubSeq(text, 1, k) \o <<NUL>> \o SubSeq(buf, k + 2, Len(buf)),
                        1, Len(buf)),
         len |-> Len(text),
         oob |-> k + 1 > Len(buf)]

\* the buffer holds a terminator
Terminated(buf) == \E i \in DOMAIN buf : buf[i] = NUL

\* strlen(buf); Len(buf) when the buffer holds no terminator
Strlen(buf) ==
    LET nuls == {i \in DOMAIN buf : buf[i] = NUL}
    IN  IF nuls = {} THEN Len(buf) ELSE (CHOOSE i \in nuls : \A j \in nuls : i <= j) - 1

\* the C string a reader of buf sees
CString(buf) == SubSeq(buf, 1, Strlen(buf))

\* ------------------------------------------------------- the inputs drawn
\* "bad token %d"
BadToken == <<98, 97, 100, 32, 116, 111, 107, 101, 110, 32, 37, 100>>
\* n times 'x', then "%d"
Pad(n) == [i \in 1..n |-> 120] \o <<37, 100>>

\* "%lc"
WideChar == <<37, 108, 99>>

\* formatted lengths 11, BUF_SIZE - 1 (fits exactly), BUF_SIZE, BUF_SIZE + 2;
\* 5 is a wide character that has no multibyte form: the formatting fails
Input(k) ==
    CASE k = 1 -> [fmt |-> BadToken, args |-> <<7>>]
      [] k = 2 -> [fmt |-> Pad(BUF_SIZE - 2), args |-> <<7>>]
      [] k = 3 -> [fmt |-> Pad(BUF_SIZE - 1), args |-> <<7>>]
      [] k = 4 -> [fmt |-> Pad(BUF_SIZE - 1), args |-> <<-12>>]
      [] k = 5 -> [fmt |-> WideChar, args |-> <<-1>>]

Inputs == 1..4

Text1 == Format(Input(1).fmt, Input(1).args)
Text2 == Format(Input(2).fmt, Input(2).args)
Text3 == Format(Input(3).fmt, Input(3).args)
Text4 == Format(Input(4).fmt, Input(4).args)
\* %lc of -1 (WEOF): the conversion fails
Text5 == EncodingError

\* the formatted text of Input(k)
Text(k) ==
    CASE k = 1 -> Text1 [] k = 2 -> Text2 [] k = 3 -> Text3 [] k = 4 -> Text4
      [] k = 5 -> Text5

VARIABLES
    envs,          \* SpecSjlj: Envs -> struct jmp_buf_impl
    sj_status,     \* SpecSjlj: "run", "thrown" (exception in flight), "trap"
    sj_thrown,     \* SpecSjlj: the env whose arg is the payload in flight, or NULL
    lastMark,      \* SpecSjlj: per env, the arguments of the latest __wasm_setjmp that returned
    lastTest,      \* SpecSjlj: the __wasm_setjmp_test call made since the latest Mark/Transfer, and its result
    lastTransfer,  \* SpecSjlj: the arguments of the latest __wasm_longjmp
    resumed,       \* SpecSjlj, SpecFrames: what the catch handler that claimed the latest Transfer dispatched
    jump_buffer,   \* support.c: static jmp_buf jump_buffer (a struct jmp_buf_impl)
    format_buf,    \* support.c: static char format_buf[BUF_SIZE]
    fprintf_buf,   \* support.c: static char fprintf_buf[BUF_SIZE] of ttstub_fprintf
    stack,         \* the call stack, outermost activation first (SpecFrames: of Frame records)
    status,        \* "run", "thrown" (C_LONGJMP in flight), "terminated", "stale_resume"
    live,          \* index in stack of the activation whose Enter is the latest with no Exit since, or 0
    last,          \* the latest operation: its name, input, and the stack depth and live at the call
                   \* (SpecFrames: its arguments, *env and the stack before it)
    sent,          \* the call into the bridge layer (ttbc_*) made by the latest operation, and the byte count passed
    oob,           \* a byte outside format_buf / fprintf_buf has been written
    tectonic_checkpoint_fn,        \* support.c: static ttbc_checkpoint_fn tectonic_checkpoint_fn
    tectonic_checkpoint_userdata,  \* support.c: static void *tectonic_checkpoint_userdata
    cp_regs,       \* the registrations made so far, oldest first
    cp_last,       \* the latest checkpoint operation, the registration it found and the callback invocations it made
    counter,       \* posix.c: static unsigned counter of mkstemp
    errno,         \* posix.c: errno, "0" until a call sets it
    mk_last,       \* the latest mkstemp call: its arguments, the template it left, its result and the opens it made
    ft_lib,        \* layout.c: static FT_Library ft_lib
    ft_face_count, \* layout.c: int ft_face_count
    ft_lib_shutdown_pending,  \* layout.c: int ft_lib_shutdown_pending
    ft_faces,      \* the FT_Face objects that exist: created and not destroyed
    ft_last        \* the latest layout.c call: its inputs, the statics on entry, its result and the handle calls it made

sjVars == <<envs, sj_status, sj_thrown, lastMark, lastTest, lastTransfer, resumed>>

chVars == <<jump_buffer, format_buf, fprintf_buf, stack, status, live, last, sent, oob>>

cpVars == <<tectonic_checkpoint_fn, tectonic_checkpoint_userdata, cp_regs, cp_last>>

pxVars == <<counter, errno, mk_last>>

ftVars == <<ft_lib, ft_face_count, ft_lib_shutdown_pending, ft_faces, ft_last>>

vars == <<envs, sj_status, sj_thrown, lastMark, lastTest, lastTransfer, resumed,
          jump_buffer, format_buf, fprintf_buf, stack, status, live, last, sent, oob,
          tectonic_checkpoint_fn, tectonic_checkpoint_userdata, cp_regs, cp_last,
          counter, errno, mk_last, ft_lib, ft_face_count, ft_lib_shutdown_pending,
          ft_faces, ft_last>>

None == [none |-> TRUE]

\* no call into the bridge layer
NoSend == [fn |-> "none", len |-> 0]

\* ------------------------------------------------------------- SpecSjlj

\* Spec, SpecMsg: the state after program start.  The statics of support.c
\* are zero-initialised and nothing has been called.
Init ==
    /\ envs = [e \in Envs |-> ZeroJmpBuf]
    /\ sj_status = "run"
    /\ sj_thrown = NULL
    /\ lastMark = [e \in Envs |-> None]
    /\ lastTest = None
    /\ lastTransfer = None
    /\ resumed = None
    /\ jump_buffer = ZeroJmpBuf
    /\ format_buf = ZeroBuf
    /\ fprintf_buf = ZeroBuf
    /\ stack = <<>>
    /\ status = "run"
    /\ live = 0
    /\ last = [op |-> "init", inp |-> 0, depth |-> 0, live |-> 0]
    /\ sent = NoSend
    /\ oob = FALSE
    /\ tectonic_checkpoint_fn = NULL
    /\ tectonic_checkpoint_userdata = NULL
    /\ cp_regs = <<>>
    /\ cp_last = [op |-> "init"]
    /\ counter = 0
    /\ errno = "0"
    /\ mk_last = [op |-> "init"]
    /\ ft_lib = NULL
    /\ ft_face_count = 0
    /\ ft_lib_shutdown_pending = 0
    /\ ft_faces = 0
    /\ ft_last = [op |-> "init"]

\* SpecSjlj, SpecFrames, SpecCheckpoint: the jmp_bufs and the checkpoint
\* statics in zero-initialised storage.  The message buffers of support.c are
\* no part of these specifications: they are left empty.
SjInit ==
    /\ envs = [e \in Envs |-> ZeroJmpBuf]
    /\ sj_status = "run"
    /\ sj_thrown = NULL
    /\ lastMark = [e \in Envs |-> None]
    /\ lastTest = None
    /\ lastTransfer = None
    /\ resumed = None
    /\ jump_buffer = ZeroJmpBuf
    /\ format_buf = <<>>
    /\ fprintf_buf = <<>>
    /\ stack = <<>>
    /\ status = "run"
    /\ live = 0
    /\ last = [op |-> "init", inp |-> 0, depth |-> 0, live |-> 0]
    /\ sent = NoSend
    /\ oob = FALSE
    /\ tectonic_checkpoint_fn = NULL
    /\ tectonic_checkpoint_userdata = NULL
    /\ cp_regs = <<>>
    /\ cp_last = [op |-> "init"]
    /\ counter = 0
    /\ errno = "0"
    /\ mk_last = [op |-> "init"]
    /\ ft_lib = NULL
    /\ ft_face_count = 0
    /\ ft_lib_shutdown_pending = 0
    /\ ft_faces = 0
    /\ ft_last = [op |-> "init"]

\* a setjmp call site: __wasm_setjmp(&envs[e], label, tok)
SjMark(e, label, tok) ==
    /\ sj_status = "run"
    /\ LET r == __wasm_setjmp(envs[e], label, tok)
       IN  /\ envs' = [envs EXCEPT ![e] = r.jb]
           /\ sj_status' = IF r.trap THEN "trap" ELSE "run"
           /\ lastMark' = IF r.trap THEN lastMark
                          ELSE [lastMark EXCEPT ![e] = [label |-> label, tok |-> tok]]
    /\ lastTest' = None
    /\ resumed' = None
    /\ UNCHANGED <<sj_thrown, lastTransfer>>
    /\ UNCHANGED <<chVars, cpVars, pxVars, ftVars>>

\* a call of __wasm_setjmp_test(&envs[e], tok)
SjTest(e, tok) ==
    /\ sj_status = "run"
    /\ LET r == __wasm_setjmp_test(envs[e], tok)
       IN  /\ lastTest' = [env |-> e, tok |-> tok, ret |-> r.ret, trap |-> r.trap,
                           mark |-> lastMark[e]]
           /\ sj_status' = IF r.trap THEN "trap" ELSE "run"
    /\ UNCHANGED <<envs, sj_thrown, lastMark, lastTransfer, resumed>>
    /\ UNCHANGED <<chVars, cpVars, pxVars, ftVars>>

\* longjmp(env, val): __wasm_longjmp(&envs[e], val), which throws C_LONGJMP
SjTransfer(e, val) ==
    /\ sj_status = "run"
    /\ envs' = [envs EXCEPT ![e] = __wasm_longjmp(envs[e], e, val)]
    /\ sj_status' = "thrown"
    /\ sj_thrown' = e
    /\ lastTransfer' = [env |-> e, val |-> val]
    /\ lastTest' = None
    /\ resumed' = None
    /\ UNCHANGED lastMark
    /\ UNCHANGED <<chVars, cpVars, pxVars, ftVars>>

\* the compiler-generated catch of an activation whose invocation id is tok:
\* it reads env and val from the payload, calls __wasm_setjmp_test and either
\* dispatches to the returned label or lets the exception propagate.
SjCatch(tok) ==
    /\ sj_status = "thrown"
    /\ LET arg == envs[sj_thrown].arg
           r   == __wasm_setjmp_test(envs[arg.env], tok)
       IN  /\ lastTest' = [env |-> arg.env, tok |-> tok, ret |-> r.ret, trap |-> r.trap,
                           mark |-> lastMark[arg.env]]
           /\ IF r.trap
              THEN /\ sj_status' = "trap"
                   /\ UNCHANGED <<sj_thrown, resumed>>
              ELSE IF r.ret # 0
              THEN /\ sj_status' = "run"
                   /\ sj_thrown' = NULL
                   /\ resumed' = [env |-> arg.env, tok |-> tok, label |-> r.ret,
                                  val |-> arg.val]
              ELSE UNCHANGED <<sj_status, sj_thrown, resumed>>
    /\ UNCHANGED <<envs, lastMark, lastTransfer>>
    /\ UNCHANGED <<chVars, cpVars, pxVars, ftVars>>

SjNext ==
    \/ \E e \in Envs, label \in Labels, tok \in TokenArg : SjMark(e, label, tok)
    \/ \E e \in Envs, tok \in TokenArg : SjTest(e, tok)
    \/ \E e \in Envs, val \in Vals : SjTransfer(e, val)
    \/ \E tok \in Tokens : SjCatch(tok)

SpecSjlj == SjInit /\ [][SjNext]_vars

\* ------------------------------------------- support.c: the abort channel

MaxDepth == 2       \* activations on the call stack

\* &jump_buffer
JB == 1
\* the label of the setjmp call site of an entry point (its only one)
EnterLabel == 1

\* An activation.  kind "entry": the function follows the pattern of
\* tectonic_bridge_core.h: setjmp(*ttbc_global_engine_enter()) first, then the
\* protected body, ttbc_global_engine_exit() on both branches.  kind "plain":
\* a function without setjmp.
\*   tok      address of the invocation_id alloca (NULL for a plain function)
\*   pc       "plain" | "start" (before setjmp) | "body" (setjmp returned 0)
\*            | "fail" (setjmp returned nonzero) | "exited" (after Exit)
\*   sj       the value setjmp returned last
\*   msg0     the text of _ttbc_get_error_message at Enter, kept while noabort
\*   noabort  no _tt_abort call since Enter
\*   clean    noabort, and no other store to format_buf and no failed
\*            input seek/close since Enter
NewFrame(kind, tok) ==
    [tok |-> tok, pc |-> IF kind = "entry" THEN "start" ELSE "plain", sj |-> 0,
     msg0 |-> <<>>, noabort |-> FALSE, clean |-> FALSE]

Top == stack[Len(stack)]
Pop(st) == SubSeq(st, 1, Len(st) - 1)
Entered(f) == f.pc \in {"body", "fail", "exited"}
LiveToks == {stack[i].tok : i \in 1..Len(stack)} \ {NULL}

\* user code can run: no exception in flight, and the top activation is not
\* between its entry and its setjmp
CanRun == status = "run" /\ (IF stack = <<>> THEN TRUE ELSE Top.pc # "start")

Op(name, inp) == [op |-> name, inp |-> inp, depth |-> Len(stack), live |-> live]

\* the flags of every entered activation after an operation of the given kind
Touch(st, kind) ==
    [i \in 1..Len(st) |->
        IF ~Entered(st[i]) THEN st[i]
        ELSE IF kind = "abort"
        THEN [st[i] EXCEPT !.noabort = FALSE, !.clean = FALSE, !.msg0 = <<>>]
        ELSE [st[i] EXCEPT !.clean = FALSE]]

\* const char *_ttbc_get_error_message(void)
_ttbc_get_error_message == CString(format_buf)

\* a call of a function: a new activation
ChCall(kind, tok) ==
    /\ CanRun
    /\ Len(stack) < MaxDepth
    /\ IF kind = "entry" THEN tok \in Tokens \ LiveToks ELSE tok = NULL
    /\ stack' = Append(stack, NewFrame(kind, tok))
    /\ last' = Op("call", 0)
    /\ sent' = NoSend
    /\ UNCHANGED <<jump_buffer, format_buf, fprintf_buf, status, live, oob>>
    /\ UNCHANGED <<sjVars, cpVars, pxVars, ftVars>>

\* return from the top activation
ChReturn ==
    /\ CanRun
    /\ stack # <<>>
    /\ Top.pc \in {"plain", "exited"}
    /\ stack' = Pop(stack)
    /\ last' = Op("return", 0)
    /\ sent' = NoSend
    /\ UNCHANGED <<jump_buffer, format_buf, fprintf_buf, status, live, oob>>
    /\ UNCHANGED <<sjVars, cpVars, pxVars, ftVars>>

\* mutant: the recovery point is established by the first Enter only
M_enter_first_round_only ==
    /\ status = "run"
    /\ stack # <<>>
    /\ Top.pc = "start"
    /\ LET r == M_setjmp_first_mark_wins(jump_buffer, EnterLabel, Top.tok)
       IN  /\ jump_buffer' = r.jb
           /\ status' = IF r.trap THEN "terminated" ELSE "run"
           /\ stack' = [stack EXCEPT ![Len(stack)] =
                          [@ EXCEPT !.pc = "body", !.sj = 0,
                                    !.msg0 = _ttbc_get_error_message,
                                    !.noabort = TRUE, !.clean = TRUE]]
    /\ live' = Len(stack)
    /\ last' = Op("enter", 0)
    /\ sent' = NoSend
    /\ UNCHANGED <<format_buf, fprintf_buf, oob>>
    /\ UNCHANGED <<sjVars, cpVars, pxVars, ftVars>>

\* setjmp(*ttbc_global_engine_enter()) in the top activation, first return
ttbc_global_engine_enter ==
    /\ status = "run"
    /\ stack # <<>>
    /\ Top.pc = "start"
    /\ LET r == __wasm_setjmp(jump_buffer, EnterLabel, Top.tok)
       IN  /\ jump_buffer' = r.jb
           /\ status' = IF r.trap THEN "terminated" ELSE "run"
           /\ stack' = [stack EXCEPT ![Len(stack)] =
                          [@ EXCEPT !.pc = "body", !.sj = 0,
                                    !.msg0 = _ttbc_get_error_message,
                                    !.noabort = TRUE, !.clean = TRUE]]
    /\ live' = Len(stack)
    /\ last' = Op("enter", 0)
    /\ sent' = NoSend
    /\ UNCHANGED <<format_buf, fprintf_buf, oob>>
    /\ UNCHANGED <<sjVars, cpVars, pxVars, ftVars>>

\* ttbc_global_engine_exit() in the top activation: the function is empty
ttbc_global_engine_exit ==
    /\ CanRun
    /\ stack # <<>>
    /\ Top.pc \in {"body", "fail"}
    /\ stack' = [stack EXCEPT ![Len(stack)].pc = "exited"]
    /\ live' = 0
    /\ last' = Op("exit", 0)
    /\ sent' = NoSend
    /\ UNCHANGED <<jump_buffer, format_buf, fprintf_buf, status, oob>>
    /\ UNCHANGED <<sjVars, cpVars, pxVars, ftVars>>

\* longjmp(jump_buffer, 1)
LongjmpJumpBuffer ==
    /\ jump_buffer' = __wasm_longjmp(jump_buffer, JB, 1)
    /\ status' = "thrown"

\* mutant: the message is formatted but longjmp is not called
M_tt_abort_returns(inp) ==
    /\ CanRun
    /\ LET w == vsnprintf(format_buf, BUF_SIZE, Text(inp))
       IN  /\ format_buf' = w.buf
           /\ oob' = (oob \/ w.oob)
    /\ stack' = Touch(stack, "abort")
    /\ last' = Op("abort", inp)
    /\ sent' = NoSend
    /\ UNCHANGED <<jump_buffer, status, fprintf_buf, live>>
    /\ UNCHANGED <<sjVars, cpVars, pxVars, ftVars>>

\* mutant: longjmp without formatting the message
M_tt_abort_skips_format(inp) ==
    /\ CanRun
    /\ LongjmpJumpBuffer
    /\ stack' = Touch(stack, "abort")
    /\ last' = Op("abort", inp)
    /\ sent' = NoSend
    /\ UNCHANGED <<format_buf, oob, fprintf_buf, live>>
    /\ UNCHANGED <<sjVars, cpVars, pxVars, ftVars>>

\* mutant: vsnprintf is given one byte more than the buffer has
M_tt_abort_size_plus_one(inp) ==
    /\ CanRun
    /\ LET w == vsnprintf(format_buf, BUF_SIZE + 1, Text(inp))
       IN  /\ format_buf' = w.buf
           /\ oob' = (oob \/ w.oob)
    /\ LongjmpJumpBuffer
    /\ stack' = Touch(stack, "abort")
    /\ last' = Op("abort", inp)
    /\ sent' = NoSend
    /\ UNCHANGED <<fprintf_buf, live>>
    /\ UNCHANGED <<sjVars, cpVars, pxVars, ftVars>>

\* _tt_abort(format, ...) with the format and arguments of Input(inp)
_tt_abort(inp) ==
    /\ CanRun
    /\ LET w == vsnprintf(format_buf, BUF_SIZE, Text(inp))
       IN  /\ format_buf' = w.buf
           /\ oob' = (oob \/ w.oob)
    /\ LongjmpJumpBuffer
    /\ stack' = Touch(stack, "abort")
    /\ last' = Op("abort", inp)
    /\ sent' = NoSend
    /\ UNCHANGED <<fprintf_buf, live>>
    /\ UNCHANGED <<sjVars, cpVars, pxVars, ftVars>>

\* The exception thrown by __wasm_longjmp reaches the top activation.  An
\* activation that has executed setjmp catches it and calls
\* __wasm_setjmp_test with the env of the payload and its own invocation id:
\* nonzero resumes at the setjmp site with the payload's value, zero lets the
\* exception propagate.  Past the outermost activation nothing catches it:
\* the process terminates; where jump_buffer still holds the context of an
\* activation that has returned, longjmp is undefined (C11 7.13.2.1) and a
\* build that restores the saved context resumes in the dead frame.
Unwind ==
    /\ status = "thrown"
    /\ IF stack = <<>>
       THEN /\ status' \in (IF jump_buffer.label = 0
                            THEN {"terminated"}
                            ELSE {"terminated", "stale_resume"})
            /\ UNCHANGED stack
       ELSE LET arg == jump_buffer.arg
                r   == __wasm_setjmp_test(jump_buffer, Top.tok)
            IN  IF ~Entered(Top)
                THEN stack' = Pop(stack) /\ UNCHANGED status
                ELSE IF r.trap
                THEN status' = "terminated" /\ UNCHANGED stack
                ELSE IF r.ret # 0
                THEN /\ stack' = [stack EXCEPT ![Len(stack)].pc = "fail",
                                               ![Len(stack)].sj = arg.val]
                     /\ status' = "run"
                ELSE stack' = Pop(stack) /\ UNCHANGED status
    /\ UNCHANGED <<jump_buffer, format_buf, fprintf_buf, live, last, sent, oob>>
    /\ UNCHANGED <<sjVars, cpVars, pxVars, ftVars>>

\* ttstub_diag_printf / ttstub_diag_vprintf, ttstub_issue_warning,
\* ttstub_issue_error: format into format_buf, pass it to the bridge layer
FormatAndSend(name, fn, inp) ==
    /\ CanRun
    /\ LET w == vsnprintf(format_buf, BUF_SIZE, Text(inp))
       IN  /\ format_buf' = w.buf
           /\ oob' = (oob \/ w.oob)
           /\ sent' = [fn |-> fn, len |-> Strlen(w.buf)]
    /\ stack' = Touch(stack, "write")
    /\ last' = Op(name, inp)
    /\ UNCHANGED <<jump_buffer, fprintf_buf, status, live>>
    /\ UNCHANGED <<sjVars, cpVars, pxVars, ftVars>>

ttstub_diag_printf(inp) == FormatAndSend("diag_printf", "ttbc_diag_append", inp)

ttstub_issue_warning(inp) == FormatAndSend("issue_warning", "ttbc_issue_warning", inp)

ttstub_issue_error(inp) == FormatAndSend("issue_error", "ttbc_issue_error", inp)

\* mutant: ttstub_fprintf formats into format_buf instead of its own buffer
M_fprintf_shares_format_buf(inp) ==
    /\ CanRun
    /\ LET w   == vsnprintf(format_buf, BUF_SIZE, Text(inp))
           len == IF w.len >= BUF_SIZE THEN BUF_SIZE - 1 ELSE w.len
           buf == IF w.len >= BUF_SIZE THEN [w.buf EXCEPT ![len + 1] = NUL] ELSE w.buf
       IN  /\ format_buf' = buf
           /\ oob' = (oob \/ w.oob)
           /\ sent' = IF len >= 0 THEN [fn |-> "ttbc_output_write", len |-> len] ELSE NoSend
           /\ last' = [op |-> "fprintf", inp |-> inp, depth |-> Len(stack),
                        live |-> len, ret |-> len]
    /\ UNCHANGED <<jump_buffer, fprintf_buf, stack, status, live>>
    /\ UNCHANGED <<sjVars, cpVars, pxVars, ftVars>>

\* ttstub_fprintf(handle, format, ...)
ttstub_fprintf(inp) ==
    /\ CanRun
    /\ LET w   == vsnprintf(fprintf_buf, BUF_SIZE, Text(inp))
           len == IF w.len >= BUF_SIZE THEN BUF_SIZE - 1 ELSE w.len
           buf == IF w.len >= BUF_SIZE THEN [w.buf EXCEPT ![len + 1] = NUL] ELSE w.buf
       IN  /\ fprintf_buf' = buf
           /\ oob' = (oob \/ w.oob)
           /\ sent' = IF len >= 0 THEN [fn |-> "ttbc_output_write", len |-> len] ELSE NoSend
           /\ last' = [op |-> "fprintf", inp |-> inp, depth |-> Len(stack),
                        live |-> len, ret |-> len]
    /\ UNCHANGED <<jump_buffer, format_buf, stack, status, live>>
    /\ UNCHANGED <<sjVars, cpVars, pxVars, ftVars>>

\* mutant: internal_error is not looked at
M_input_seek_ignores_error(rv, internal_error) ==
    /\ CanRun
    /\ sent' = [fn |-> "ttbc_input_seek", len |-> 0]
    /\ last' = [op |-> "input_seek", inp |-> rv, depth |-> Len(stack), live |-> live,
                err |-> internal_error, ret |-> <<rv>>]
    /\ stack' = IF internal_error # 0 THEN Touch(stack, "iofail") ELSE stack
    /\ UNCHANGED <<jump_buffer, status>>
    /\ UNCHANGED <<format_buf, fprintf_buf, live, oob>>
    /\ UNCHANGED <<sjVars, cpVars, pxVars, ftVars>>

\* ttstub_input_seek(handle, offset, whence): the provider returns rv and
\* reports internal_error.  ret: the value returned to the caller, <<>>
\* where the call does not return.
ttstub_input_seek(rv, internal_error) ==
    /\ CanRun
    /\ sent' = [fn |-> "ttbc_input_seek", len |-> 0]
    /\ last' = [op |-> "input_seek", inp |-> rv, depth |-> Len(stack), live |-> live,
                err |-> internal_error,
                ret |-> IF internal_error # 0 THEN <<>> ELSE <<rv>>]
    /\ IF internal_error # 0
       THEN /\ LongjmpJumpBuffer
            /\ stack' = Touch(stack, "iofail")
       ELSE UNCHANGED <<jump_buffer, status, stack>>
    /\ UNCHANGED <<format_buf, fprintf_buf, live, oob>>
    /\ UNCHANGED <<sjVars, cpVars, pxVars, ftVars>>

\* ttstub_input_close(handle): the provider's close returns rc.  ret: the
\* value returned to the caller, <<>> where the call does not return.
ttstub_input_close(rc) ==
    /\ CanRun
    /\ sent' = [fn |-> "ttbc_input_close", len |-> 0]
    /\ last' = [op |-> "input_close", inp |-> rc, depth |-> Len(stack), live |-> live,
                err |-> rc,
                ret |-> IF rc # 0 THEN <<>> ELSE <<0>>]
    /\ IF rc # 0
       THEN /\ LongjmpJumpBuffer
            /\ stack' = Touch(stack, "iofail")
       ELSE UNCHANGED <<jump_buffer, status, stack>>
    /\ UNCHANGED <<format_buf, fprintf_buf, live, oob>>
    /\ UNCHANGED <<sjVars, cpVars, pxVars, ftVars>>

\* Spec: nested activations, every operation of the channel, one message
Next ==
    \/ \E kind \in {"entry", "plain"}, tok \in TokenArg : ChCall(kind, tok)
    \/ ChReturn
    \/ ttbc_global_engine_enter
    \/ ttbc_global_engine_exit
    \/ \E inp \in {1} : _tt_abort(inp)
    \/ Unwind
    \/ \E rv \in {0}, err \in {0, 1} : ttstub_input_seek(rv, err)
    \/ \E rc \in {0, 1} : ttstub_input_close(rc)

Spec == Init /\ [][Next]_vars

\* SpecMsg: one protected region at a time, every message
MsgNext ==
    \/ \E tok \in Tokens : stack = <<>> /\ ChCall("entry", tok)
    \/ ChCall("plain", NULL)
    \/ ChReturn
    \/ ttbc_global_engine_enter
    \/ ttbc_global_engine_exit
    \/ \E inp \in Inputs : _tt_abort(inp)
    \/ Unwind
    \/ \E inp \in {1} : ttstub_diag_printf(inp)
    \/ \E inp \in {1, 4} : ttstub_issue_warning(inp)
    \/ \E inp \in {4} : ttstub_issue_error(inp)
    \/ \E inp \in {3} : ttstub_fprintf(inp)
    \/ \E rv \in {0}, err \in {0, 1} : ttstub_input_seek(rv, err)
    \/ \E rc \in {0, 1} : ttstub_input_close(rc)

SpecMsg == Init /\ [][MsgNext]_vars

\* SpecFprintf: one protected region, the messages that set format_buf, and
\* ttstub_fprintf with every input
FprintfNext ==
    \/ \E tok \in Tokens : stack = <<>> /\ ChCall("entry", tok)
    \/ ttbc_global_engine_enter
    \/ \E inp \in {1} : _tt_abort(inp)
    \/ Unwind
    \/ \E inp \in {4} : ttstub_issue_warning(inp)
    \/ \E inp \in Inputs \cup {5} : ttstub_fprintf(inp)

SpecFprintf == Init /\ [][FprintfNext]_vars

\* ------------------------------------ sjlj_rt.c: activations and handlers

\* Each function that calls setjmp has one invocation_id alloca per
\* activation and a compiler-generated catch around its calls; a function
\* without setjmp has neither.  An activation of SpecFrames:
\*   tok     address of the invocation_id alloca (NULL: function without setjmp)
\*   marked  the activation has executed a setjmp call site
Frame(tok) == [tok |-> tok, marked |-> FALSE]

\* the jmp_buf the activations of SpecFrames share: &envs[FrEnv]
FrEnv == 1

\* what SpecFrames leaves alone
frRest == <<lastMark, lastTest, lastTransfer, jump_buffer, format_buf, fprintf_buf,
            status, live, sent, oob, cpVars, pxVars, ftVars>>

\* the index of the innermost activation of st whose invocation id is id, or 0
Owner(st, id) ==
    LET own == {i \in 1..Len(st) : st[i].tok # NULL /\ st[i].tok = id}
    IN  IF own = {} THEN 0 ELSE CHOOSE i \in own : \A j \in own : j <= i

\* a call: a new activation; the address of its alloca is that of no live one
FrCall(tok) ==
    /\ sj_status = "run"
    /\ Len(stack) < MaxDepth
    /\ tok \in TokenArg \ LiveToks
    /\ stack' = Append(stack, Frame(tok))
    /\ last' = [op |-> "call"]
    /\ resumed' = None
    /\ UNCHANGED <<envs, sj_status, sj_thrown>>
    /\ UNCHANGED frRest

\* the top activation returns
FrReturn ==
    /\ sj_status = "run"
    /\ stack # <<>>
    /\ stack' = Pop(stack)
    /\ last' = [op |-> "return"]
    /\ resumed' = None
    /\ UNCHANGED <<envs, sj_status, sj_thrown>>
    /\ UNCHANGED frRest

\* setjmp(env) at the call site label of the top activation:
\* __wasm_setjmp(&envs[e], label, &invocation_id)
FrMark(e, label) ==
    /\ sj_status = "run"
    /\ stack # <<>>
    /\ Top.tok # NULL
    /\ LET r == __wasm_setjmp(envs[e], label, Top.tok)
       IN  /\ envs' = [envs EXCEPT ![e] = r.jb]
           /\ sj_status' = IF r.trap THEN "trap" ELSE "run"
           /\ stack' = IF r.trap THEN stack
                       ELSE [stack EXCEPT ![Len(stack)].marked = TRUE]
    /\ last' = [op |-> "mark", env |-> e, label |-> label, tok |-> Top.tok,
                before |-> envs[e], stack |-> stack]
    /\ resumed' = None
    /\ UNCHANGED sj_thrown
    /\ UNCHANGED frRest

\* mutant: the payload is stored but nothing is thrown: longjmp returns
M_FrTransfer_returns(e, val) ==
    /\ sj_status = "run"
    /\ stack # <<>>
    /\ envs' = [envs EXCEPT ![e] = __wasm_longjmp(envs[e], e, val)]
    /\ last' = [op |-> "transfer", env |-> e, val |-> val, before |-> envs[e],
                stack |-> stack]
    /\ resumed' = None
    /\ UNCHANGED <<stack, sj_status, sj_thrown>>
    /\ UNCHANGED frRest

\* longjmp(env, val) in the top activation: __wasm_longjmp(&envs[e], val)
\* stores the payload and throws C_LONGJMP
FrTransfer(e, val) ==
    /\ sj_status = "run"
    /\ stack # <<>>
    /\ envs' = [envs EXCEPT ![e] = __wasm_longjmp(envs[e], e, val)]
    /\ sj_status' = "thrown"
    /\ sj_thrown' = e
    /\ last' = [op |-> "transfer", env |-> e, val |-> val, before |-> envs[e],
                stack |-> stack]
    /\ resumed' = None
    /\ UNCHANGED stack
    /\ UNCHANGED frRest

\* The exception reaches the top activation.  A function without setjmp has
\* no catch: the exception passes through it.  The catch of a function with
\* setjmp reads env and val from the payload and calls __wasm_setjmp_test with
\* its own invocation id: nonzero is the label it dispatches to, zero rethrows.
\* Past the outermost activation the exception is uncaught.
FrUnwind ==
    /\ sj_status = "thrown"
    /\ IF stack = <<>>
       THEN /\ sj_status' = "terminated"
            /\ UNCHANGED <<stack, sj_thrown, resumed>>
       ELSE IF Top.tok = NULL
       THEN /\ stack' = Pop(stack)
            /\ UNCHANGED <<sj_status, sj_thrown, resumed>>
       ELSE LET arg == envs[sj_thrown].arg
                r   == __wasm_setjmp_test(envs[arg.env], Top.tok)
            IN  IF r.trap
                THEN /\ sj_status' = "trap"
                     /\ UNCHANGED <<stack, sj_thrown, resumed>>
                ELSE IF r.ret # 0
                THEN /\ sj_status' = "run"
                     /\ sj_thrown' = NULL
                     /\ resumed' = [env |-> arg.env, tok |-> Top.tok, label |-> r.ret,
                                    val |-> arg.val, depth |-> Len(stack)]
                     /\ UNCHANGED stack
                ELSE /\ stack' = Pop(stack)
                     /\ UNCHANGED <<sj_status, sj_thrown, resumed>>
    /\ UNCHANGED <<envs, last>>
    /\ UNCHANGED frRest

FrNext ==
    \/ \E tok \in TokenArg : FrCall(tok)
    \/ FrReturn
    \/ \E label \in Labels \ {0} : FrMark(FrEnv, label)
    \/ \E val \in Vals : FrTransfer(FrEnv, val)
    \/ FrUnwind

\* SpecFrames: sjlj_rt.c under a call stack of activations
SpecFrames == SjInit /\ [][FrNext]_vars

\* --------------------------------------- support.c: the checkpoint callback

NumCallbacks  == 2  \* functions that can be registered
NumUserdata   == 1  \* non-null userdata pointers
MaxCheckpoint == 1  \* checkpoint ids 0..MaxCheckpoint
MaxRegs       == 3  \* registrations made

\* ttbc_checkpoint_fn values: the functions, or NULL
Callbacks == 0..NumCallbacks
\* void *userdata values, NULL among them
Userdata == 0..NumUserdata
\* int checkpoint_id values
CheckpointIds == 0..MaxCheckpoint

\* the checkpoint callback state
Registration == [fn |-> tectonic_checkpoint_fn, userdata |-> tectonic_checkpoint_userdata]

\* mutant: a registration is kept until it is cleared
M_set_checkpoint_keeps_first(fn, userdata) ==
    /\ Len(cp_regs) < MaxRegs
    /\ IF tectonic_checkpoint_fn = NULL \/ fn = NULL
       THEN /\ tectonic_checkpoint_fn' = fn
            /\ tectonic_checkpoint_userdata' = userdata
       ELSE UNCHANGED <<tectonic_checkpoint_fn, tectonic_checkpoint_userdata>>
    /\ cp_regs' = Append(cp_regs, [fn |-> fn, userdata |-> userdata])
    /\ cp_last' = [op |-> "set", id |-> 0, found |-> Registration, calls |-> <<>>]
    /\ UNCHANGED <<sjVars, chVars, pxVars, ftVars>>

\* ttbc_set_checkpoint_callback(fn, userdata)
ttbc_set_checkpoint_callback(fn, userdata) ==
    /\ Len(cp_regs) < MaxRegs
    /\ tectonic_checkpoint_fn' = fn
    /\ tectonic_checkpoint_userdata' = userdata
    /\ cp_regs' = Append(cp_regs, [fn |-> fn, userdata |-> userdata])
    /\ cp_last' = [op |-> "set", id |-> 0, found |-> Registration, calls |-> <<>>]
    /\ UNCHANGED <<sjVars, chVars, pxVars, ftVars>>

\* mutant: the callback is one-shot, the registration is cleared after the call
M_fire_checkpoint_clears(checkpoint_id) ==
    /\ cp_last' = [op |-> "fire", id |-> checkpoint_id, found |-> Registration,
                   calls |-> IF tectonic_checkpoint_fn # NULL
                             THEN <<[fn |-> tectonic_checkpoint_fn,
                                     userdata |-> tectonic_checkpoint_userdata,
                                     id |-> checkpoint_id]>>
                             ELSE <<>>]
    /\ tectonic_checkpoint_fn' = NULL
    /\ tectonic_checkpoint_userdata' = NULL
    /\ UNCHANGED cp_regs
    /\ UNCHANGED <<sjVars, chVars, pxVars, ftVars>>

\* ttbc_fire_checkpoint(checkpoint_id); calls: the invocations of the
\* callback it made, each with the arguments passed
ttbc_fire_checkpoint(checkpoint_id) ==
    /\ cp_last' = [op |-> "fire", id |-> checkpoint_id, found |-> Registration,
                   calls |-> IF tectonic_checkpoint_fn # NULL
                             THEN <<[fn |-> tectonic_checkpoint_fn,
                                     userdata |-> tectonic_checkpoint_userdata,
                                     id |-> checkpoint_id]>>
                             ELSE <<>>]
    /\ UNCHANGED <<tectonic_checkpoint_fn, tectonic_checkpoint_userdata, cp_regs>>
    /\ UNCHANGED <<sjVars, chVars, pxVars, ftVars>>

CpNext ==
    \/ \E fn \in Callbacks, userdata \in Userdata : ttbc_set_checkpoint_callback(fn, userdata)
    \/ \E checkpoint_id \in CheckpointIds : ttbc_fire_checkpoint(checkpoint_id)

\* SpecCheckpoint: registrations and fires in any order
SpecCheckpoint == SjInit /\ [][CpNext]_vars

\* --------------------------- tectonic_bridge_core.h: the entry-point pattern

\* what myentrypoint returns: setjmp nonzero is the failure branch
ReturnCode(f) == IF f.sj # 0 THEN "MY_FATAL_ABORT_CODE" ELSE "my_result_code"

\* my_main_implementation() is running: every activation on the stack is in
\* the protected body of the entry point or is a function called from it
InBody ==
    /\ status = "run"
    /\ stack # <<>>
    /\ \A i \in 1..Len(stack) : stack[i].pc \in {"body", "plain"}

\* SpecEntry: top-level invocations of an entry point that follows the
\* pattern, one after the other: setjmp(*ttbc_global_engine_enter()) first;
\* on the failure branch ttbc_global_engine_exit() and return; else the
\* protected body, then ttbc_global_engine_exit() and return.
EntryNext ==
    \/ \E tok \in Tokens : stack = <<>> /\ ChCall("entry", tok)
    \/ InBody /\ ChCall("plain", NULL)
    \/ ChReturn
    \/ ttbc_global_engine_enter
    \/ ttbc_global_engine_exit
    \/ \E inp \in {1, 4} : InBody /\ _tt_abort(inp)
    \/ Unwind
    \/ \E rv \in {0, 1}, err \in {0, 1} : InBody /\ ttstub_input_seek(rv, err)
    \/ \E rc \in {-1, 0, 1} : InBody /\ ttstub_input_close(rc)

SpecEntry == Init /\ [][EntryNext]_vars

\* ------------------------------------------------------------- SpecMkstemp
\* posix.c: mkstemp.  A template is the sequence of its characters' codes,
\* the directory is the environment: what each open() answers is an input.

\* The counter and the values derived from it are unsigned, 32 bits wide.
\* Every value of the model stays below 2^31 (the counter grows by at most
\* MaxAttempts a call and the calls stop at MaxCounter), so no operation
\* here wraps and none is reduced modulo 2^32.

\* the bound of the attempt loop
MaxAttempts == 100

\* 'X'
X == 88

\* "abcdefghijklmnopqrstuvwxyz0123456789"
charset == [i \in 1..36 |-> IF i <= 26 THEN 96 + i ELSE 21 + i]

RECURSIVE BitXor(_, _)
\* a ^ b on unsigned values
BitXor(a, b) ==
    IF a = 0 THEN b
    ELSE IF b = 0 THEN a
    ELSE (((a % 2) + (b % 2)) % 2) + 2 * BitXor(a \div 2, b \div 2)

\* the templates mkstemp is called with that end in XXXXXX: "tXXXXXX", "XXXXXX"
GoodTemplates == { <<116, X, X, X, X, X, X>>, <<X, X, X, X, X, X>> }

\* and those that do not: "XXXXX" (too short), "", "XXXXXt" and "tXXXXX" (six
\* characters, not all X), "XXXXXXt" (the X's are not at the end), "XXtXXXXa"
BadTemplates ==
    { <<X, X, X, X, X>>, <<>>, <<X, X, X, X, X, 116>>, <<116, X, X, X, X, X>>,
      <<X, X, X, X, X, X, 116>>, <<X, X, 116, X, X, X, X, 97>> }

\* the addresses the template is at
Addrs == {1024, 2051}

\* what an open(O_RDWR | O_CREAT | O_EXCL) answers: a descriptor, or -1 and errno
OpenResults ==
    { [fd |-> 0, errno |-> "0"], [fd |-> 3, errno |-> "0"],
      [fd |-> -1, errno |-> "EEXIST"], [fd |-> -1, errno |-> "EACCES"] }

\* how many of the names a call tries exist already: none, one, two, all but
\* the last
Existing == (0..2) \cup {MaxAttempts - 1}

\* a directory in which every name is free
Free == [n |-> 0, at |-> [fd |-> 3, errno |-> "0"], after |-> [fd |-> 3, errno |-> "0"]]

\* a directory in which every name the call tries exists
Full == [n |-> MaxAttempts, at |-> [fd |-> -1, errno |-> "EEXIST"],
         after |-> [fd |-> -1, errno |-> "EEXIST"]]

\* the directory as one call meets it: the first n names it tries exist, the
\* next open answers `at` (something other than EEXIST), every later one `after`
Oracles ==
    { [n |-> n, at |-> at, after |-> Free.after] :
        n \in Existing, at \in { a \in OpenResults : a.errno # "EEXIST" } }
    \cup {Full}

\* the answer of the open of attempt k
Answer(o, k) == IF k < o.n THEN [fd |-> -1, errno |-> "EEXIST"]
                ELSE IF k = o.n THEN o.at ELSE o.after

\* M: a template is accepted on its length alone
M_ValidTemplate_length_only(tmpl) == Len(tmpl) >= 6

\* lines 26-38: the template has at least 6 characters and its last 6 are 'X'
ValidTemplate(tmpl) ==
    /\ Len(tmpl) >= 6
    /\ \A i \in 1..6 : tmpl[Len(tmpl) - 6 + i] = X

\* line 45: counter ^ (unsigned)(size_t)tmpl ^ (unsigned)attempt
Val(c, addr, attempt) == BitXor(BitXor(c, addr), attempt)

\* lines 47-50: the six characters written for val, suffix[5] from val % 36
Suffix(val) == [i \in 1..6 |-> charset[((val \div (36 ^ (6 - i))) % 36) + 1]]

\* the template once the suffix for val is written into its last 6 characters
Rewrite(tmpl, val) == SubSeq(tmpl, 1, Len(tmpl) - 6) \o Suffix(val)

\* M: every failed open is retried
M_Retry_any_error(e) == TRUE

\* line 53: the loop goes on only when open failed with EEXIST
Retry(e) == e = "EEXIST"

\* lines 52-53: the answer a ends the loop, a descriptor or an error that is
\* not retried
Ending(a) == a.fd >= 0 \/ ~Retry(a.errno)

RECURSIVE Passes(_, _)
\* the number of passes the loop of line 43 makes from attempt k on, plus k
Passes(o, k) ==
    IF k >= MaxAttempts THEN MaxAttempts
    ELSE IF Ending(Answer(o, k)) THEN k + 1
    ELSE Passes(o, k + 1)

\* lines 43-57: the loop.  st holds the template, the counter and errno on
\* entry; pass k (attempt k - 1) increments the counter, writes the suffix
\* and opens the name, and open sets errno when it fails.
Attempt(st, o) ==
    LET n == Passes(o, 0)
        name(k) == Rewrite(st.tmpl, Val(st.counter + k, st.addr, k - 1))
        a == Answer(o, n - 1)
    IN  [st EXCEPT !.counter = st.counter + n,
                   !.tmpl = name(n),
                   !.opens = [k \in 1..n |-> name(k)],
                   !.answers = [k \in 1..n |-> Answer(o, k - 1)],
                   !.errno = IF a.fd >= 0
                             THEN (IF n = 1 THEN st.errno ELSE "EEXIST")
                             ELSE a.errno,
                   !.ret = IF a.fd >= 0 THEN a.fd ELSE -1]

\* int mkstemp(char *tmpl), the template at address addr, in directory o
mkstemp(tmpl, addr, o) ==
    LET st == [tmpl |-> tmpl, addr |-> addr, counter |-> counter, errno |-> errno,
               opens |-> <<>>, answers |-> <<>>, ret |-> -1]
        r == IF ValidTemplate(tmpl) THEN Attempt(st, o)
             ELSE [st EXCEPT !.errno = "EINVAL"]
    IN  /\ counter' = r.counter
        /\ errno' = r.errno
        /\ mk_last' = [op |-> "mkstemp", tmpl |-> tmpl, addr |-> addr,
                       counter |-> counter, out |-> r.tmpl, ret |-> r.ret,
                       opens |-> r.opens, answers |-> r.answers]
        /\ UNCHANGED <<sjVars, chVars, cpVars, ftVars>>

\* the calls of the model stop once the counter has passed MaxCounter
MaxCounter == 1

MkGood ==
    /\ counter <= MaxCounter
    /\ \E tmpl \in GoodTemplates, addr \in Addrs, o \in Oracles : mkstemp(tmpl, addr, o)

MkBad ==
    /\ counter <= MaxCounter
    /\ \E tmpl \in BadTemplates, addr \in Addrs : mkstemp(tmpl, addr, Free)

MkNext == MkGood \/ MkBad

SpecMkstemp == SjInit /\ [][MkNext]_vars

\* ------------------------------------------------------------- SpecLayout
\* layout.c: the FreeType library singleton and initialize_ft.  What the
\* bridge, malloc and FreeType answer is an input of each call, drawn where
\* the code asks.  An input handle is 1 (the font file) or 2 (the AFM file),
\* the library handle is 1; io is the sequence of calls made on input handles.

\* the faces the model lets exist at once
MaxFaces == 2

\* the formats the font file is opened with, in order
Formats == <<"OPEN_TYPE", "TRUE_TYPE", "TYPE1">>

\* ttbc_input_open(name, format, 0) returning handle (NULL: it failed)
OpenEv(name, format, handle) ==
    [call |-> "open", name |-> name, format |-> format, handle |-> handle, rc |-> 0]

\* ttbc_input_get_size(handle), ttbc_input_read(handle, ...)
UseEv(call, handle) ==
    [call |-> call, name |-> "", format |-> "", handle |-> handle, rc |-> 0]

\* ttstub_input_close(handle), the provider's close answering rc
CloseEv(handle, rc) ==
    [call |-> "close", name |-> "", format |-> "", handle |-> handle, rc |-> rc]

\* lines 47-56: get_ft_library, FT_Init_FreeType answering err
GetFtLibrary(err) == IF ft_lib # NULL THEN ft_lib ELSE IF err # 0 THEN NULL ELSE 1

\* FT_Library get_ft_library(void)
get_ft_library(err) ==
    /\ ft_lib' = GetFtLibrary(err)
    /\ ft_last' = [op |-> "get_ft_library", lib |-> ft_lib, count |-> ft_face_count,
                   pending |-> ft_lib_shutdown_pending, faces |-> ft_faces,
                   ret |-> <<GetFtLibrary(err)>>]
    /\ UNCHANGED <<ft_face_count, ft_lib_shutdown_pending, ft_faces>>
    /\ UNCHANGED <<sjVars, chVars, cpVars, pxVars>>

\* M: the face count is not consulted
M_ShutdownDue_ignores_faces(pending, count, lib) == pending # 0 /\ lib # NULL

\* line 59: the condition of maybe_shutdown_ft
ShutdownDue(pending, count, lib) == pending # 0 /\ count = 0 /\ lib # NULL

\* void maybe_shutdown_ft(void)
maybe_shutdown_ft ==
    /\ IF ShutdownDue(ft_lib_shutdown_pending, ft_face_count, ft_lib)
       THEN /\ ft_lib' = NULL
            /\ ft_lib_shutdown_pending' = 0
       ELSE UNCHANGED <<ft_lib, ft_lib_shutdown_pending>>
    /\ ft_last' = [op |-> "maybe_shutdown_ft", lib |-> ft_lib, count |-> ft_face_count,
                   pending |-> ft_lib_shutdown_pending, faces |-> ft_faces,
                   done |-> ShutdownDue(ft_lib_shutdown_pending, ft_face_count, ft_lib)]
    /\ UNCHANGED <<ft_face_count, ft_faces>>
    /\ UNCHANGED <<sjVars, chVars, cpVars, pxVars>>

\* ft_lib_shutdown_pending is not static: the code outside layout.c that
\* ends the engine's use of FreeType sets it
FtRequestShutdown ==
    /\ ft_lib_shutdown_pending = 0
    /\ ft_lib_shutdown_pending' = 1
    /\ ft_last' = [op |-> "request_shutdown", lib |-> ft_lib, count |-> ft_face_count,
                   pending |-> ft_lib_shutdown_pending, faces |-> ft_faces]
    /\ UNCHANGED <<ft_lib, ft_face_count, ft_faces>>
    /\ UNCHANGED <<sjVars, chVars, cpVars, pxVars>>

\* ft_face_count is not static: the code outside layout.c that deletes a
\* font destroys its face and counts it down
FtDoneFace ==
    /\ ft_faces > 0
    /\ ft_faces' = ft_faces - 1
    /\ ft_face_count' = ft_face_count - 1
    /\ ft_last' = [op |-> "done_face", lib |-> ft_lib, count |-> ft_face_count,
                   pending |-> ft_lib_shutdown_pending, faces |-> ft_faces]
    /\ UNCHANGED <<ft_lib, ft_lib_shutdown_pending>>
    /\ UNCHANGED <<sjVars, chVars, cpVars, pxVars>>

\* M: the AFM handle is closed only when its buffer was allocated
M_AfmAttach_close_inside(name_ok, handle, data_ok, nread, rc) ==
    IF ~name_ok THEN <<>>
    ELSE IF handle = NULL THEN <<OpenEv("afm", "AFM", NULL)>>
    ELSE IF ~data_ok THEN <<OpenEv("afm", "AFM", handle), UseEv("size", handle)>>
    ELSE <<OpenEv("afm", "AFM", handle), UseEv("size", handle), UseEv("read", handle),
           CloseEv(handle, rc)>>

\* lines 323-354: the AFM attach of a face that is not SFNT.  name_ok and
\* data_ok: the two mallocs; handle: what ttbc_input_open answers; nread: what
\* ttbc_input_read answers (it decides only FT_Attach_Stream); rc: the close.
AfmAttach(name_ok, handle, data_ok, nread, rc) ==
    IF ~name_ok THEN <<>>
    ELSE IF handle = NULL THEN <<OpenEv("afm", "AFM", NULL)>>
    ELSE <<OpenEv("afm", "AFM", handle), UseEv("size", handle)>>
         \o (IF data_ok THEN <<UseEv("read", handle)>> ELSE <<>>)
         \o <<CloseEv(handle, rc)>>

\* the call made on input handles so far has come back: ttstub_input_close
\* does not return when the provider's close fails
Returned(io) == \A k \in 1..Len(io) : io[k].call = "close" => io[k].rc = 0

\* initialize_ft ends: ret is <<-1>> or <<0>>, or <<>> when a close diverted;
\* made and gone count the faces created and destroyed
FtEnd(index, lib, io, ret, made, gone) ==
    /\ ft_lib' = lib
    /\ ft_face_count' = ft_face_count + made - gone
    /\ ft_faces' = ft_faces + made - gone
    /\ ft_last' = [op |-> "initialize_ft", index |-> index, lib |-> ft_lib,
                   count |-> ft_face_count, pending |-> ft_lib_shutdown_pending,
                   faces |-> ft_faces, io |-> io, ret |-> ret,
                   made |-> made, gone |-> gone]
    /\ UNCHANGED ft_lib_shutdown_pending
    /\ UNCHANGED <<sjVars, chVars, cpVars, pxVars>>

\* lines 280-286: the opens of the font file, format after format, the
\* opened-th answering handle 1 (opened = 0: none does)
FontOpens(opened) ==
    [k \in 1..(IF opened = 0 THEN 3 ELSE opened) |->
        OpenEv("font", Formats[k], IF k = opened THEN 1 ELSE NULL)]

\* lines 253-269: initialize_hb_font, its malloc succeeding or not
initialize_hb_font(hb_ok) == IF hb_ok THEN 0 ELSE -1

\* static int initialize_ft(font, pathname, index)
initialize_ft(index) ==
    \E init_err \in {0, 1} :
    LET lib == GetFtLibrary(init_err)
    IN  IF lib = NULL THEN FtEnd(index, lib, <<>>, <<-1>>, 0, 0)
        ELSE \E opened \in 0..3 :
        IF opened = 0 THEN FtEnd(index, lib, FontOpens(0), <<-1>>, 0, 0)
        ELSE \E data_ok \in BOOLEAN, rc \in {0, 1} :
        LET io1 == FontOpens(opened) \o <<UseEv("size", 1)>>
                   \o (IF data_ok THEN <<UseEv("read", 1)>> ELSE <<>>)
                   \o <<CloseEv(1, rc)>>
        IN  IF rc # 0 THEN FtEnd(index, lib, io1, <<>>, 0, 0)
            ELSE IF ~data_ok THEN FtEnd(index, lib, io1, <<-1>>, 0, 0)
            ELSE \E nread \in {"error", "short", "full"} :
            IF nread # "full" THEN FtEnd(index, lib, io1, <<-1>>, 0, 0)
            ELSE \E face \in {"error", "bitmap", "sfnt", "type1"} :
            IF face = "error" THEN FtEnd(index, lib, io1, <<-1>>, 0, 0)
            ELSE IF face = "bitmap" THEN FtEnd(index, lib, io1, <<-1>>, 1, 1)
            ELSE \E hb_ok \in BOOLEAN :
            IF index = 0 /\ face = "type1"
            THEN \E name_ok \in BOOLEAN, handle \in {NULL, 2}, afm_ok \in BOOLEAN,
                    afm_nread \in {0, 1}, afm_rc \in {0, 1} :
                 LET io2 == io1 \o AfmAttach(name_ok, handle, afm_ok, afm_nread, afm_rc)
                 IN  IF ~Returned(io2) THEN FtEnd(index, lib, io2, <<>>, 1, 0)
                     ELSE FtEnd(index, lib, io2, <<initialize_hb_font(hb_ok)>>, 1, 0)
            ELSE FtEnd(index, lib, io1, <<initialize_hb_font(hb_ok)>>, 1, 0)

LayoutNext ==
    \/ \E err \in {0, 1} : get_ft_library(err)
    \/ maybe_shutdown_ft
    \/ FtRequestShutdown
    \/ FtDoneFace
    \/ \E index \in {0, 1} : ft_faces < MaxFaces /\ initialize_ft(index)

SpecLayout == SjInit /\ [][LayoutNext]_vars

\* =================================================================== claims

\* ---- C1 (SpecSjlj)
\* C1: after __wasm_setjmp(env, L, T) with nonzero L and non-null T, and no
\* later Mark on env, __wasm_setjmp_test(env, T) returns exactly L: this holds
\* of the env as it stands, and of every Test call that was made.
C1_MarkThenTest ==
    /\ \A e \in Envs :
          lastMark[e] # None
          => __wasm_setjmp_test(envs[e], lastMark[e].tok)
                = [trap |-> FALSE, ret |-> lastMark[e].label]
    /\ (lastTest # None /\ lastTest.mark # None /\ lastTest.tok = lastTest.mark.tok)
          => (~lastTest.trap /\ lastTest.ret = lastTest.mark.label)

\* a Test with the marking token has returned the marked label
C1_Witness ==
    /\ lastTest # None
    /\ lastTest.mark # None
    /\ lastTest.tok = lastTest.mark.tok
    /\ lastTest.ret = lastTest.mark.label
    /\ lastTest.ret = MaxLabel

\* ---- C2 (SpecSjlj)
\* C2: after Mark(env, L, T1), Test(env, T2) with a non-null T2 different
\* from T1 returns 0 and does not trap.
C2_OtherTokenGetsZero ==
    /\ \A e \in Envs, t2 \in Tokens :
          (lastMark[e] # None /\ t2 # lastMark[e].tok)
          => __wasm_setjmp_test(envs[e], t2) = [trap |-> FALSE, ret |-> 0]
    /\ (lastTest # None /\ lastTest.mark # None /\ lastTest.tok # NULL
           /\ lastTest.tok # lastTest.mark.tok)
          => (~lastTest.trap /\ lastTest.ret = 0)

\* a Test with another token than the marking one has returned 0
C2_Witness ==
    /\ lastTest # None
    /\ lastTest.mark # None
    /\ lastTest.tok # NULL
    /\ lastTest.tok # lastTest.mark.tok
    /\ lastTest.ret = 0
    /\ ~lastTest.trap

\* ---- C3 (SpecSjlj)
\* C3: __wasm_longjmp(env, v) leaves as pending payload the target env itself
\* and the value 1 for v = 0, v for every other v; the value a claiming
\* handler resumes with is that value and is never 0.
C3_TransferCanonical ==
    /\ (sj_status = "thrown" /\ lastTransfer # None)
          => /\ sj_thrown = lastTransfer.env
             /\ envs[sj_thrown].arg.env = lastTransfer.env
             /\ envs[sj_thrown].arg.val
                   = (IF lastTransfer.val = 0 THEN 1 ELSE lastTransfer.val)
             /\ envs[sj_thrown].arg.val # 0
    /\ (resumed # None /\ lastTransfer # None)
          => /\ resumed.env = lastTransfer.env
             /\ resumed.val = (IF lastTransfer.val = 0 THEN 1 ELSE lastTransfer.val)
             /\ resumed.val # 0

\* a Transfer of 0 has been claimed and resumed with 1
C3_Witness ==
    /\ resumed # None
    /\ lastTransfer # None
    /\ lastTransfer.val = 0
    /\ resumed.val = 1
    /\ sj_status = "run"

\* an Abort has been called and its diversion has been claimed: the
\* activation on top of the stack is back at its setjmp site
Landed == status = "run" /\ last.op = "abort"

\* ---- C4 (Spec)
\* C4: an Abort called while a recovery point is live never returns and
\* resumes exactly once at that region's Enter site: the target activation is
\* on the stack; while the diversion is in flight the only steps are the
\* removal of the activations above the target, none of which runs again,
\* then the single step that resumes the target with a nonzero setjmp value;
\* and the program runs again only at that site.
C4_AbortResumesAtEnter ==
    /\ []((status = "thrown" /\ last.op = "abort" /\ last.live # 0)
             => (last.live <= Len(stack) /\ stack[last.live].pc \in {"body", "fail"}))
    /\ []((Landed /\ last.live # 0)
             => (Len(stack) = last.live /\ Top.pc = "fail" /\ Top.sj # 0))
    /\ []((last.op = "abort" /\ last.live # 0) => status \in {"thrown", "run"})
    /\ [][(status = "thrown" /\ last.op = "abort" /\ last.live # 0)
             => IF Len(stack) > last.live
                THEN status' = "thrown" /\ stack' = Pop(stack)
                ELSE /\ status' = "run"
                     /\ stack' = [stack EXCEPT ![Len(stack)].pc = "fail",
                                               ![Len(stack)].sj = 1]]_vars

\* an Abort in a nested call has resumed at the Enter site of the region
C4_Witness ==
    /\ Landed
    /\ last.live # 0
    /\ last.depth > last.live
    /\ Len(stack) = last.live
    /\ Top.pc = "fail"

\* ---- C5 (Spec)
\* C5: an Abort called when no recovery point is live (before any Enter, or
\* after the Exit that retired the last entered region) terminates the
\* process and never resumes at a retired or never-established Enter site.
C5_AbortWithoutRecoveryPointIsFatal ==
    (last.op = "abort" /\ last.live = 0) => status \in {"thrown", "terminated"}

\* the activations that would claim a diversion through jump_buffer now
Claimants ==
    {i \in 1..Len(stack) :
        /\ Entered(stack[i])
        /\ jump_buffer.label # 0
        /\ __wasm_setjmp_test(jump_buffer, stack[i].tok).ret # 0}

\* ---- C6 (Spec)
\* C6: at most one recovery point is live: at most one activation would claim
\* a diversion; an Enter replaces the target, so that while a region is
\* entered and not exited the one claimant is the most recently entered
\* activation; and an Abort issued then resumes at that activation's Enter
\* site, not at an outer one.
C6_SingleRecoveryPoint ==
    /\ Cardinality(Claimants) <= 1
    /\ live # 0 => Claimants = {live}
    /\ (Landed /\ last.live # 0) => Len(stack) = last.live

\* an Abort issued in an inner region has resumed at the inner Enter site
\* while the outer region is still in its protected body
C6_Witness ==
    /\ Landed
    /\ Len(stack) = 2
    /\ last.live = 2
    /\ stack[1].pc = "body"
    /\ stack[2].pc = "fail"

\* the top activation has just called Exit
JustExited == status = "run" /\ last.op = "exit" /\ stack # <<>> /\ Top.pc = "exited"

BadToken7 == <<98, 97, 100, 32, 116, 111, 107, 101, 110, 32, 55>>

\* ---- C8 (SpecMsg)
\* C8: when an Enter site observes the diversion of Abort(format, args),
\* _ttbc_get_error_message read there is exactly the printf-formatted text of
\* that call, the most recent Abort, whatever the buffer held before (a text
\* that does not fit the buffer is the matter of C9);
\* Abort("bad token %d", 7) yields "bad token 7".
C8_MessageIsFormattedText ==
    /\ (Landed /\ Len(Format(Input(last.inp).fmt, Input(last.inp).args)) < BUF_SIZE)
          => _ttbc_get_error_message = Format(Input(last.inp).fmt, Input(last.inp).args)
    /\ (Landed /\ Input(last.inp).fmt = BadToken /\ Input(last.inp).args = <<7>>)
          => _ttbc_get_error_message = BadToken7

\* Abort("bad token %d", 7) has overwritten a longer message and the Enter
\* site reads "bad token 7"
C8_Witness ==
    /\ Landed
    /\ last.inp = 1
    /\ Top.pc = "fail"
    /\ _ttbc_get_error_message = BadToken7
    /\ format_buf[Len(BadToken7) + 2] # NUL

\* ---- C9 (SpecMsg)
\* C9: no byte outside the 1024-byte buffer is ever written, the buffer is
\* always terminated and its string has at most 1023 bytes; after an Abort
\* whose formatted text does not fit, the message is the first 1023 bytes of
\* that text, and the diversion still happens (the program runs again only at
\* the resumed setjmp site).
C9_TruncationNoOverflow ==
    /\ ~oob
    /\ Len(format_buf) = BUF_SIZE
    /\ Terminated(format_buf)
    /\ Len(_ttbc_get_error_message) <= BUF_SIZE - 1
    /\ (last.op = "abort" /\ Len(Text(last.inp)) >= BUF_SIZE)
          => /\ _ttbc_get_error_message = SubSeq(Text(last.inp), 1, BUF_SIZE - 1)
             /\ status # "run" \/ (stack # <<>> /\ Top.pc = "fail" /\ Top.sj = 1)

\* an Abort with a text of more than 1024 bytes has been resumed at the
\* Enter site, which reads 1023 bytes
C9_Witness ==
    /\ Landed
    /\ Len(Text(last.inp)) > BUF_SIZE
    /\ Top.pc = "fail"
    /\ Len(_ttbc_get_error_message) = BUF_SIZE - 1

\* ---- C10 (Spec)
\* C10: when an activation A has marked jump_buffer and a reentrant activation
\* A2 has marked it after A and both are live, Test with A2's token returns
\* A2's nonzero label and Test with the token of A (of any other entered
\* activation) returns 0; an exception in flight that reaches an entered
\* activation reaches A2 first, and A2 claims it.
C10_InnermostClaims ==
    /\ [](live # 0
            => /\ __wasm_setjmp_test(jump_buffer, stack[live].tok)
                     = [trap |-> FALSE, ret |-> EnterLabel]
               /\ \A i \in 1..Len(stack) :
                     (i # live /\ Entered(stack[i]))
                     => __wasm_setjmp_test(jump_buffer, stack[i].tok)
                           = [trap |-> FALSE, ret |-> 0])
    /\ [][(status = "thrown" /\ live # 0 /\ stack # <<>> /\ Entered(Top))
             => /\ Len(stack) = live
                /\ status' = "run"
                /\ Len(stack') = live
                /\ stack'[live].pc = "fail"]_vars

\* a diversion is in flight while A and its reentrant activation A2 are live
\* and A2 marked last
C10_Witness ==
    /\ status = "thrown"
    /\ Len(stack) = 2
    /\ live = 2
    /\ Entered(stack[1])
    /\ Entered(stack[2])
    /\ stack[1].tok # stack[2].tok

\* a Transfer is the latest operation: its diversion is in flight or has ended
Diverted == last.op = "transfer"

\* ---- C11 (SpecFrames)
\* C11: a Transfer never returns to its caller: the program runs again only
\* where a handler has claimed the diversion.  While the diversion is in
\* flight the payload is {env, canonical value} and no step changes it; an
\* activation without handler, or whose token is not the owner recorded in
\* env, is left and the same signal reaches the next one; the first
\* activation whose token is the owner resumes at the recorded label with the
\* payload's value and the signal is consumed (no other activation sees it);
\* past the outermost activation the process terminates.  So the diversion
\* ends claimed by the innermost activation that was live at the Transfer and
\* owns env, or, if there was none, with the process terminated.
C11_DiversionPropagates ==
    /\ [](Diverted => (sj_status # "run" \/ resumed # None))
    /\ []((Diverted /\ sj_status = "thrown")
             => /\ envs[sj_thrown].arg
                      = [env |-> last.env, val |-> IF last.val = 0 THEN 1 ELSE last.val]
                /\ stack = SubSeq(last.stack, 1, Len(stack)))
    /\ []((Diverted /\ resumed # None)
             => /\ sj_status = "run"
                /\ sj_thrown = NULL
                /\ resumed.depth = Owner(last.stack, last.before.func_invocation_id)
                /\ stack = SubSeq(last.stack, 1, resumed.depth)
                /\ resumed.label = last.before.label
                /\ resumed.val = (IF last.val = 0 THEN 1 ELSE last.val))
    /\ []((Diverted /\ sj_status \in {"terminated", "trap"})
             => \/ Owner(last.stack, last.before.func_invocation_id) = 0
                \/ last.before.label = 0)
    /\ [](sj_status = "terminated" => (Diverted /\ stack = <<>>))
    /\ [][sj_status = "thrown"
             => LET arg    == envs[sj_thrown].arg
                    target == envs[arg.env]
                IN  /\ envs' = envs
                    /\ IF stack = <<>>
                       THEN sj_status' = "terminated"
                       ELSE IF Top.tok = NULL
                               \/ (target.label # 0 /\ Top.tok # target.func_invocation_id)
                       THEN /\ sj_status' = "thrown"
                            /\ sj_thrown' = sj_thrown
                            /\ stack' = Pop(stack)
                       ELSE IF target.label # 0
                       THEN /\ sj_status' = "run"
                            /\ stack' = stack
                            /\ resumed' = [env |-> arg.env, tok |-> Top.tok,
                                           label |-> target.label, val |-> arg.val,
                                           depth |-> Len(stack)]
                       ELSE sj_status' = "trap"]_vars

\* a Transfer made two activations above the owner of env, through an
\* activation whose handler does not match, has been claimed by the owner
C11_Witness ==
    /\ Diverted
    /\ resumed # None
    /\ Len(last.stack) = MaxDepth
    /\ last.stack[MaxDepth].tok # NULL
    /\ resumed.depth = 1
    /\ last.val = 0

\* a Transfer with no live owner of env has reached the process boundary
C11_WitnessTerminated ==
    /\ Diverted
    /\ sj_status = "terminated"
    /\ last.before.label # 0
    /\ \E i \in 1..Len(last.stack) : last.stack[i].tok # NULL

\* ---- C12 (SpecSjlj)
\* C12: __wasm_setjmp with label 0 or a null invocation id traps and leaves
\* *env as it was, for every env the program can hold: neither the id nor
\* the label is stored; after such a trap every env still records the target
\* of its latest successful Mark (or none), and nothing runs any more: the
\* call neither returns nor throws.
C12_BadMarkTrapsEnvUntouched ==
    /\ [](\A e \in Envs, label \in Labels, tok \in TokenArg :
             (label = 0 \/ tok = NULL)
             => __wasm_setjmp(envs[e], label, tok) = [trap |-> TRUE, jb |-> envs[e]])
    /\ []((sj_status = "trap" /\ lastTest = None)
             => \A e \in Envs :
                   IF lastMark[e] = None
                   THEN envs[e].label = 0 /\ envs[e].func_invocation_id = NULL
                   ELSE /\ envs[e].label = lastMark[e].label
                        /\ envs[e].func_invocation_id = lastMark[e].tok)
    /\ [][sj_status # "trap"]_vars

\* a Mark on a marked env has trapped and the env still records its target
C12_Witness ==
    /\ sj_status = "trap"
    /\ lastTest = None
    /\ \A e \in Envs :
          /\ lastMark[e] # None
          /\ envs[e].label = lastMark[e].label
          /\ envs[e].func_invocation_id = lastMark[e].tok

\* ---- C13 (SpecSjlj)
\* C13: __wasm_setjmp_test traps exactly when env is unmarked (label 0) or
\* the token is null, whatever the other argument is; it returns a value only
\* for a marked env and a non-null token.  This holds of every env the
\* program can hold and of every Test call made, and a trapped Test ends the
\* program.
C13_TestTrapsOnUnmarkedOrNull ==
    /\ \A e \in Envs, tok \in TokenArg :
          __wasm_setjmp_test(envs[e], tok).trap <=> (envs[e].label = 0 \/ tok = NULL)
    /\ lastTest # None
          => /\ lastTest.trap <=> (lastTest.mark = None \/ lastTest.tok = NULL)
             /\ lastTest.trap => sj_status = "trap"
             /\ ~lastTest.trap => (sj_status # "trap" /\ lastTest.ret \in Labels)

\* a Test with a null token on a marked env has trapped
C13_Witness ==
    /\ lastTest # None
    /\ lastTest.trap
    /\ lastTest.mark # None
    /\ lastTest.tok = NULL
    /\ sj_status = "trap"

\* ---- C14 (SpecFrames)
\* C14: a Mark on an env that is already marked (by T1 with L1) succeeds and
\* replaces the recorded target by its own {T2, L2}: Test with T2 returns L2,
\* and for T1 different from T2 Test with T1 returns 0; for T1 equal to T2
\* Test with T1 returns L2.
C14_RemarkReplacesTarget ==
    (last.op = "mark" /\ last.before.label # 0)
       => /\ sj_status = "run"
          /\ envs[last.env].func_invocation_id = last.tok
          /\ envs[last.env].label = last.label
          /\ __wasm_setjmp_test(envs[last.env], last.tok)
                = [trap |-> FALSE, ret |-> last.label]
          /\ last.before.func_invocation_id # last.tok
                => __wasm_setjmp_test(envs[last.env], last.before.func_invocation_id)
                      = [trap |-> FALSE, ret |-> 0]

\* an env marked by a live activation with one label has been marked again
\* by another activation with another label
C14_Witness ==
    /\ last.op = "mark"
    /\ last.before.label # 0
    /\ last.before.label # last.label
    /\ last.before.func_invocation_id # last.tok
    /\ Owner(stack, last.before.func_invocation_id) # 0
    /\ stack[Owner(stack, last.before.func_invocation_id)].marked
    /\ __wasm_setjmp_test(envs[last.env], last.tok).ret = last.label

\* the activation live at the latest Transfer that owns the env, or 0
TransferTarget == Owner(last.stack, last.before.func_invocation_id)

\* ---- C15 (SpecFrames)
\* C15: a Transfer leaves the owner token and the label of env as they were
\* and writes only the pending payload {env, canonical value}; no step of the
\* propagation (the Test calls of the handlers) changes env; so when the
\* activation that owns a marked env is live at the Transfer, in whatever
\* nested activation the Transfer is made, the process does not terminate,
\* that activation's Test returns the marked label and it resumes there with
\* the canonical value (1 for a Transfer of 0).
C15_TransferKeepsTarget ==
    /\ [](Diverted
            => /\ envs[last.env].func_invocation_id = last.before.func_invocation_id
               /\ envs[last.env].label = last.before.label
               /\ envs[last.env].arg
                     = [env |-> last.env, val |-> IF last.val = 0 THEN 1 ELSE last.val]
               /\ \A e \in Envs \ {last.env} : envs[e] = ZeroJmpBuf)
    /\ []((Diverted /\ last.before.label # 0 /\ TransferTarget # 0)
            => /\ sj_status \in {"thrown", "run"}
               /\ __wasm_setjmp_test(envs[last.env], last.stack[TransferTarget].tok)
                     = [trap |-> FALSE, ret |-> last.before.label]
               /\ sj_status = "run"
                     => /\ resumed # None
                        /\ resumed.depth = TransferTarget
                        /\ Len(stack) = TransferTarget
                        /\ resumed.label = last.before.label
                        /\ resumed.val # 0
                        /\ resumed.val = (IF last.val = 0 THEN 1 ELSE last.val))
    /\ [][sj_status = "thrown" => envs' = envs]_vars

\* an activation has marked env with the highest label, a nested activation
\* has made a Transfer of 0, and the marker has resumed with value 1
C15_Witness ==
    /\ Diverted
    /\ resumed # None
    /\ last.val = 0
    /\ resumed.val = 1
    /\ resumed.label = MaxLabel
    /\ resumed.depth < Len(last.stack)
    /\ Top.marked
    /\ Top.tok = envs[last.env].func_invocation_id

\* the latest registration
LatestReg == cp_regs[Len(cp_regs)]

\* ---- C16 (SpecCheckpoint)
\* C16: a ttbc_fire_checkpoint made before any registration invokes no
\* callback and leaves the callback state as it was (NULL, NULL); after any
\* sequence of registrations every invocation a fire makes is of the function
\* and userdata registered last, never of an earlier registration.
C16_FireUsesLatestRegistration ==
    /\ (cp_last.op = "fire" /\ cp_regs = <<>>)
          => /\ cp_last.calls = <<>>
             /\ Registration = [fn |-> NULL, userdata |-> NULL]
             /\ cp_last.found = Registration
    /\ (cp_last.op = "fire" /\ cp_regs # <<>>)
          => \A i \in DOMAIN cp_last.calls :
                /\ cp_last.calls[i].fn = LatestReg.fn
                /\ cp_last.calls[i].userdata = LatestReg.userdata

\* after two registrations of different functions a fire has invoked the
\* second one
C16_Witness ==
    /\ cp_last.op = "fire"
    /\ Len(cp_regs) = 2
    /\ cp_regs[1].fn # NULL
    /\ cp_regs[2].fn # NULL
    /\ cp_regs[1].fn # cp_regs[2].fn
    /\ Len(cp_last.calls) = 1
    /\ cp_last.calls[1].fn = cp_regs[2].fn

\* ---- C20 (SpecCheckpoint)
\* C20: a ttbc_fire_checkpoint(id) that finds a callback registered makes
\* exactly one invocation, within the call, of the function registered last
\* with the userdata registered last and the same id, and leaves the
\* registration as it found it; the callback state is always the latest
\* registration, so after a registration of a NULL function a fire invokes
\* nothing, until a non-NULL function is registered again.
C20_FireInvokesOnceWithUserdata ==
    /\ [](cp_regs # <<>> => Registration = LatestReg)
    /\ []((cp_last.op = "fire" /\ cp_last.found.fn # NULL)
             => /\ cp_regs # <<>>
                /\ cp_last.calls = <<[fn |-> LatestReg.fn,
                                       userdata |-> LatestReg.userdata,
                                       id |-> cp_last.id]>>)
    /\ [](cp_last.op = "fire" => Registration = cp_last.found)
    /\ []((cp_last.op = "fire" /\ cp_regs # <<>> /\ LatestReg.fn = NULL)
             => cp_last.calls = <<>>)
    /\ [][cp_last'.op = "fire"
             => /\ tectonic_checkpoint_fn' = tectonic_checkpoint_fn
                /\ tectonic_checkpoint_userdata' = tectonic_checkpoint_userdata]_vars

\* a function was registered, then NULL, then a function with another
\* userdata, and a fire has invoked it once with that userdata and its id
C20_Witness ==
    /\ cp_last.op = "fire"
    /\ Len(cp_regs) = 3
    /\ cp_regs[1].fn # NULL
    /\ cp_regs[2].fn = NULL
    /\ cp_regs[3].fn # NULL
    /\ cp_regs[3].userdata # cp_regs[1].userdata
    /\ cp_last.id = MaxCheckpoint
    /\ cp_last.calls = <<[fn |-> cp_regs[3].fn, userdata |-> cp_regs[3].userdata,
                          id |-> MaxCheckpoint]>>

\* after a registration of NULL that replaced a function, a fire has
\* invoked nothing
C20_WitnessCleared ==
    /\ cp_last.op = "fire"
    /\ Len(cp_regs) = 2
    /\ cp_regs[1].fn # NULL
    /\ cp_regs[2].fn = NULL
    /\ cp_last.calls = <<>>

\* ---- C17 (SpecEntry)
\* C17: an invocation of an entry point that follows the pattern calls Exit
\* exactly once for its Enter on every path: an activation that has executed
\* Enter leaves the stack only by returning after its Exit, never by being
\* unwound, and the process does not end under it; on the failure branch the
\* next step is its Exit, and after its Exit the next step is its return, so
\* there is no second Exit; and the code it returns is the fatal-abort code
\* exactly when its body raised a diversion (an Abort or a failed input
\* seek/close), the result code when the body completed.
C17_ExitOncePerEnter ==
    /\ [](status \in {"run", "thrown"})
    /\ [](JustExited => (ReturnCode(Top) = "MY_FATAL_ABORT_CODE" <=> ~Top.clean))
    /\ []((stack # <<>> /\ stack[1].pc = "fail") => (stack[1].sj # 0 /\ ~stack[1].clean))
    /\ [][(stack # <<>> /\ Entered(stack[1]) /\ stack' = <<>>)
             => (Len(stack) = 1 /\ stack[1].pc = "exited" /\ status = "run")]_vars
    /\ [][(stack # <<>> /\ stack[1].pc = "fail")
             => stack' = [stack EXCEPT ![1].pc = "exited"]]_vars
    /\ [][(stack # <<>> /\ stack[1].pc = "exited") => stack' = <<>>]_vars

\* an entry point whose body called Abort has called Exit on its failure
\* branch and is about to return the fatal-abort code
C17_Witness ==
    /\ JustExited
    /\ Len(stack) = 1
    /\ ~Top.noabort
    /\ Top.sj = 1
    /\ ReturnCode(Top) = "MY_FATAL_ABORT_CODE"

\* ---- C18 (SpecEntry)
\* C18: in any sequence of rounds Enter, body, Exit, every Enter first
\* observes the normal path (setjmp returns 0) and makes its own activation
\* the one that claims a diversion, whatever the earlier rounds left in
\* jump_buffer and format_buf; and every Abort lands in the activation of its
\* own round, the one on the stack, with setjmp returning 1: the process
\* never ends and never resumes in the activation of an earlier round.
C18_RoundsAreIndependent ==
    /\ [](status \notin {"terminated", "stale_resume"})
    /\ [](last.op = "enter"
            => /\ status = "run"
               /\ Len(stack) = 1
               /\ Top.pc = "body"
               /\ Top.sj = 0
               /\ live = 1
               /\ Claimants = {1})
    /\ [](last.op = "abort"
            => /\ last.live = 1
               /\ stack # <<>>
               /\ jump_buffer.func_invocation_id = stack[1].tok
               /\ status = "run"
                     => (Len(stack) = 1 /\ Top.pc = "fail" /\ Top.sj = 1))

\* the Abort of a round has landed in that round's activation and its
\* message has replaced the longer message of an earlier round's Abort
C18_Witness ==
    /\ Landed
    /\ Len(stack) = 1
    /\ Top.pc = "fail"
    /\ Top.sj = 1
    /\ Top.tok = jump_buffer.func_invocation_id
    /\ last.inp = 1
    /\ format_buf[Len(BadToken7) + 2] # NUL

\* a round has been entered after a round that was diverted
C18_WitnessReenter ==
    /\ last.op = "enter"
    /\ jump_buffer.arg.val = 1
    /\ Top.msg0 # <<>>
    /\ Top.sj = 0

\* ---- C19 (SpecEntry)
\* C19: ttstub_input_seek returns the provider's result to its caller when
\* the provider reports no internal error, and otherwise does not return but
\* diverts through jump_buffer with value 1 to the live recovery point;
\* ttstub_input_close returns 0 when the provider's close returns 0 and
\* diverts the same way otherwise.  Neither call, nor the diversion it
\* raises, writes format_buf: the text of _ttbc_get_error_message at the
\* landing is the text from before the call.
C19_SeekCloseDivertWithoutMessage ==
    /\ [](last.op \in {"input_seek", "input_close"}
            => IF last.err = 0
               THEN /\ last.ret = <<IF last.op = "input_seek" THEN last.inp ELSE 0>>
                    /\ status = "run"
                    /\ Len(stack) = last.depth
               ELSE /\ last.ret = <<>>
                    /\ status \in {"thrown", "run"}
                    /\ jump_buffer.arg = [env |-> JB, val |-> 1]
                    /\ status = "run"
                          => (Len(stack) = last.live /\ Top.pc = "fail" /\ Top.sj = 1))
    /\ [][last'.op \in {"input_seek", "input_close"} => format_buf' = format_buf]_vars

\* a failed close in a nested function has landed at the Enter site, where
\* the message is still that of an earlier round's Abort
C19_Witness ==
    /\ last.op = "input_close"
    /\ last.err # 0
    /\ last.depth > 1
    /\ status = "run"
    /\ Len(stack) = 1
    /\ Top.pc = "fail"
    /\ Top.noabort
    /\ _ttbc_get_error_message = BadToken7

\* ------------------------------------------------------------- mkstemp

\* the character c is one of [a-z0-9]
Alnum(c) == (97 <= c /\ c <= 122) \/ (48 <= c /\ c <= 57)

\* the template t has fewer than 6 characters or its last 6 are not all 'X'
Malformed(t) == Len(t) < 6 \/ \E i \in 1..6 : t[Len(t) - 6 + i] # 88

\* C21: a mkstemp call makes at most 100 opens; every open before its last
\* one failed with EEXIST; when the last open succeeded the call returns that
\* descriptor; when it failed with another error the call returns -1 with
\* that error; when it failed with EEXIST it was the 100th and the call
\* returns -1 with errno EEXIST.
C21_MkstempRetriesOnlyOnEEXIST ==
    (mk_last.op = "mkstemp" /\ mk_last.opens # <<>>) =>
        LET n == Len(mk_last.opens)
            A == mk_last.answers
        IN  /\ n <= 100
            /\ Len(A) = n
            /\ \A k \in 1..(n - 1) : A[k].fd < 0 /\ A[k].errno = "EEXIST"
            /\ A[n].fd >= 0 => mk_last.ret = A[n].fd
            /\ (A[n].fd < 0 /\ A[n].errno # "EEXIST") =>
                   (mk_last.ret = -1 /\ errno = A[n].errno)
            /\ (A[n].fd < 0 /\ A[n].errno = "EEXIST") =>
                   (n = 100 /\ mk_last.ret = -1 /\ errno = "EEXIST")

\* C21 witness: a call whose 100 opens all failed with EEXIST has returned -1
C21_Witness ==
    /\ mk_last.op = "mkstemp"
    /\ Len(mk_last.opens) = 100
    /\ mk_last.answers[100].errno = "EEXIST"
    /\ mk_last.ret = -1

\* C21: a call whose third open is the first to succeed, with descriptor 0
C21_WitnessRetried ==
    /\ mk_last.op = "mkstemp"
    /\ Len(mk_last.opens) = 3
    /\ mk_last.ret = 0

\* C21: a call whose second open failed with EACCES
C21_WitnessOtherError ==
    /\ mk_last.op = "mkstemp"
    /\ Len(mk_last.opens) = 2
    /\ mk_last.ret = -1
    /\ errno = "EACCES"

\* C22: a mkstemp call with a template shorter than 6 characters, or whose
\* last 6 characters are not all 'X', returns -1 with errno EINVAL, leaves
\* the template as it was, opens nothing and leaves the counter as it was;
\* a call with any other template leaves the template's length and all but
\* its last 6 characters as they were, in every name it opens and in the
\* end, and the last 6 characters of every name it opens are of [a-z0-9].
C22_MkstempRejectsBadTemplate ==
    mk_last.op = "mkstemp" =>
        IF Malformed(mk_last.tmpl)
        THEN /\ mk_last.ret = -1
             /\ errno = "EINVAL"
             /\ mk_last.out = mk_last.tmpl
             /\ mk_last.opens = <<>>
             /\ counter = mk_last.counter
        ELSE LET len == Len(mk_last.tmpl)
             IN  /\ mk_last.opens # <<>>
                 /\ mk_last.out = mk_last.opens[Len(mk_last.opens)]
                 /\ \A k \in 1..Len(mk_last.opens) :
                        /\ Len(mk_last.opens[k]) = len
                        /\ SubSeq(mk_last.opens[k], 1, len - 6) = SubSeq(mk_last.tmpl, 1, len - 6)
                        /\ \A i \in (len - 5)..len : Alnum(mk_last.opens[k][i])

\* C22 witness: a call with "XXXXXt", after a call that advanced the counter,
\* has returned -1
C22_Witness ==
    /\ mk_last.op = "mkstemp"
    /\ mk_last.tmpl = <<88, 88, 88, 88, 88, 116>>
    /\ mk_last.ret = -1
    /\ counter > 0

\* C22: a call with "tXXXXXX" has returned a descriptor and left "t" and six
\* characters that are not all 'X'
C22_WitnessRewritten ==
    /\ mk_last.op = "mkstemp"
    /\ mk_last.tmpl = <<116, 88, 88, 88, 88, 88, 88>>
    /\ mk_last.ret >= 0
    /\ mk_last.out # mk_last.tmpl
    /\ mk_last.out[1] = 116

\* C23: the names one mkstemp call opens are pairwise distinct.
C23_RetriedNamesDistinct ==
    mk_last.op = "mkstemp" =>
        \A i, j \in 1..Len(mk_last.opens) :
            i # j => mk_last.opens[i] # mk_last.opens[j]

\* the live activations whose Test on env e returns nonzero
EnvClaimants(e) ==
    { i \in 1..Len(stack) :
        /\ stack[i].tok # NULL
        /\ envs[e].label # 0
        /\ __wasm_setjmp_test(envs[e], stack[i].tok).ret # 0 }

\* ---- C24 (SpecFrames)
\* C24: env records only its most recent Mark.  At any time at most one live
\* activation's Test on env returns nonzero; a live activation that has
\* marked env and is not the owner env records gets 0 from Test, whether the
\* activation that marked env after it is still live or has returned, and
\* the owner gets its label; only a Mark changes the owner env records, and
\* after a Mark the marker is the owner; a diversion is claimed only by the
\* activation whose token env records.
C24_OnlyLatestMarkerClaims ==
    /\ [](Cardinality(EnvClaimants(FrEnv)) <= 1)
    /\ [](\A i \in 1..Len(stack) :
             stack[i].marked
             => /\ envs[FrEnv].label # 0
                /\ __wasm_setjmp_test(envs[FrEnv], stack[i].tok)
                      = [trap |-> FALSE,
                         ret |-> IF stack[i].tok = envs[FrEnv].func_invocation_id
                                 THEN envs[FrEnv].label ELSE 0])
    /\ [](resumed # None
             => /\ resumed.tok = envs[resumed.env].func_invocation_id
                /\ resumed.label = envs[resumed.env].label)
    /\ [][envs'[FrEnv].func_invocation_id # envs[FrEnv].func_invocation_id
             => last'.op = "mark"]_vars
    /\ []((last.op = "mark" /\ sj_status = "run")
             => envs[last.env].func_invocation_id = last.tok)

\* C24 witness: a live activation had marked env, another activation marked
\* env after it and returned, and a diversion through env went past the
\* earlier marker to the process boundary
C24_Witness ==
    /\ Diverted
    /\ sj_status = "terminated"
    /\ last.before.label # 0
    /\ Owner(last.stack, last.before.func_invocation_id) = 0
    /\ \E i \in 1..Len(last.stack) :
          /\ last.stack[i].marked
          /\ last.stack[i].tok # last.before.func_invocation_id

\* C24: the earlier marker, after the later one has returned, has marked env
\* again and is the one activation whose Test returns nonzero
C24_WitnessMarkedAgain ==
    /\ last.op = "mark"
    /\ sj_status = "run"
    /\ last.stack[Len(last.stack)].marked
    /\ last.before.func_invocation_id # last.tok
    /\ Owner(last.stack, last.before.func_invocation_id) = 0
    /\ EnvClaimants(FrEnv) = {Len(stack)}

\* ------------------------------------------------------------- layout.c

\* the positions of io at which handle h is closed
Closes(io, h) == { j \in 1..Len(io) : io[j].call = "close" /\ io[j].handle = h }

\* ---- C25 (SpecLayout)
\* C25: when initialize_ft has returned, every handle an open gave it has
\* been closed exactly once, after that open, and every close it made was of
\* a handle an earlier open gave it.
C25_InitializeFtClosesWhatItOpened ==
    (ft_last.op = "initialize_ft" /\ ft_last.ret # <<>>) =>
        LET io == ft_last.io
        IN  /\ \A i \in 1..Len(io) :
                  (io[i].call = "open" /\ io[i].handle # NULL)
                  => /\ Cardinality(Closes(io, io[i].handle)) = 1
                     /\ \A j \in Closes(io, io[i].handle) : j > i
            /\ \A j \in 1..Len(io) :
                  io[j].call = "close"
                  => /\ io[j].handle # NULL
                     /\ \E i \in 1..(j - 1) :
                           io[i].call = "open" /\ io[i].handle = io[j].handle

\* C25 witness: initialize_ft has returned 0 after opening the font file at
\* the third format and the AFM file, whose buffer it could not allocate
C25_Witness ==
    /\ ft_last.op = "initialize_ft"
    /\ ft_last.ret = <<0>>
    /\ Closes(ft_last.io, 1) # {}
    /\ Closes(ft_last.io, 2) # {}
    /\ ft_last.io[3].handle = 1
    /\ \A k \in 1..Len(ft_last.io) :
          ~(ft_last.io[k].call = "read" /\ ft_last.io[k].handle = 2)

\* C25: initialize_ft has returned -1 on the allocation failure of the font
\* buffer, the font file closed
C25_WitnessAllocFailure ==
    /\ ft_last.op = "initialize_ft"
    /\ ft_last.ret = <<-1>>
    /\ Closes(ft_last.io, 1) # {}
    /\ \A k \in 1..Len(ft_last.io) : ft_last.io[k].call # "read"

\* what C26 says of maybe_shutdown_ft and of the face count in every state:
\* the library exists while faces do; a maybe_shutdown_ft call destroyed the
\* library only with a shutdown pending, ft_face_count 0 and the library
\* initialized, and then cleared the handle and the flag, and otherwise
\* changed nothing; an initialize_ft call changed ft_face_count by the faces
\* it created less those it destroyed; ft_face_count is the number of faces
\* and is not negative.
FtSingleton ==
    /\ ft_faces > 0 => ft_lib # NULL
    /\ ft_face_count = ft_faces
    /\ ft_face_count >= 0
    /\ ft_last.op = "maybe_shutdown_ft"
          => /\ ft_face_count = ft_last.count
             /\ ft_faces = ft_last.faces
             /\ IF ft_last.pending # 0 /\ ft_last.count = 0 /\ ft_last.lib # NULL
                THEN ft_lib = NULL /\ ft_lib_shutdown_pending = 0 /\ ft_last.faces = 0
                ELSE ft_lib = ft_last.lib /\ ft_lib_shutdown_pending = ft_last.pending
    /\ ft_last.op = "initialize_ft"
          => /\ ft_face_count = ft_last.count + ft_last.made - ft_last.gone
             /\ ft_last.gone <= ft_last.made
             /\ ft_lib_shutdown_pending = ft_last.pending

\* ---- C26 (SpecLayout)
\* C26 as stated: FtSingleton, and every -1 return of initialize_ft leaves
\* ft_face_count at its value on entry.
C26_FailureRestoresFaceCount ==
    /\ FtSingleton
    /\ (ft_last.op = "initialize_ft" /\ ft_last.ret = <<-1>>)
          => ft_face_count = ft_last.count

\* C26 amended: FtSingleton, and a -1 return of initialize_ft leaves
\* ft_face_count at its value on entry unless the face was created and not
\* destroyed (the -1 is initialize_hb_font's): then the face exists and
\* ft_face_count is one more than on entry.
C26_FailureKeepsFaceCounted ==
    /\ FtSingleton
    /\ (ft_last.op = "initialize_ft" /\ ft_last.ret = <<-1>>)
          => IF ft_last.made = 1 /\ ft_last.gone = 0
             THEN ft_face_count = ft_last.count + 1 /\ ft_faces = ft_last.faces + 1
             ELSE ft_face_count = ft_last.count /\ ft_faces = ft_last.faces

\* C26 witness: initialize_ft has returned -1 from initialize_hb_font with
\* the face created and counted
C26_Witness ==
    /\ ft_last.op = "initialize_ft"
    /\ ft_last.ret = <<-1>>
    /\ ft_last.made = 1
    /\ ft_last.gone = 0
    /\ ft_face_count = ft_last.count + 1

\* C26: maybe_shutdown_ft has destroyed the library, with no face left
C26_WitnessShutdown ==
    /\ ft_last.op = "maybe_shutdown_ft"
    /\ ft_last.done
    /\ ft_last.lib # NULL
    /\ ft_lib = NULL
    /\ ft_lib_shutdown_pending = 0

\* C26: maybe_shutdown_ft with a shutdown pending and a face left has
\* changed nothing
C26_WitnessDeferred ==
    /\ ft_last.op = "maybe_shutdown_ft"
    /\ ft_last.pending # 0
    /\ ft_last.count > 0
    /\ ft_lib # NULL
    /\ ft_lib_shutdown_pending # 0

\* C26: initialize_ft has returned -1 for a face that is not scalable,
\* created and destroyed
C26_WitnessNotScalable ==
    /\ ft_last.op = "initialize_ft"
    /\ ft_last.ret = <<-1>>
    /\ ft_last.made = 1
    /\ ft_last.gone = 1
    /\ ft_face_count = ft_last.count

\* ---- C27 (SpecFprintf)
\* C27: a ttstub_fprintf call whose text formats to n characters has passed
\* min(n, 1023) bytes to ttbc_output_write, the first min(n, 1023)
\* characters of the text, and returned that number; a call whose formatting
\* failed has written nothing and returned the negative value; and no
\* ttstub_fprintf call changes format_buf, so the text
\* _ttbc_get_error_message returns is the same after it as before.
C27_FprintfWritesTruncatedLength ==
    /\ [](last.op = "fprintf"
             => IF Text(last.inp) = EncodingError
                THEN sent = NoSend /\ last.ret < 0
                ELSE LET n == Len(Text(last.inp))
                         m == IF n <= 1023 THEN n ELSE 1023
                     IN  /\ sent = [fn |-> "ttbc_output_write", len |-> m]
                         /\ last.ret = m
                         /\ SubSeq(fprintf_buf, 1, m) = SubSeq(Text(last.inp), 1, m)
                         /\ fprintf_buf[m + 1] = NUL)
    /\ [][last'.op = "fprintf"
             => /\ format_buf' = format_buf
                /\ _ttbc_get_error_message' = _ttbc_get_error_message]_vars

\* C27 witness: a ttstub_fprintf call with a text of BUF_SIZE characters,
\* made while an error message is set, has written 1023 bytes
C27_Witness ==
    /\ last.op = "fprintf"
    /\ Len(Text(last.inp)) = BUF_SIZE
    /\ sent = [fn |-> "ttbc_output_write", len |-> 1023]
    /\ last.ret = 1023
    /\ _ttbc_get_error_message # <<>>

\* C27: a ttstub_fprintf call whose formatting failed has written nothing
C27_WitnessFailed ==
    /\ last.op = "fprintf"
    /\ last.ret < 0
    /\ sent = NoSend
    /\ _ttbc_get_error_message # <<>>

\* C27: a ttstub_fprintf call with a short text has written all of it
C27_WitnessShort ==
    /\ last.op = "fprintf"
    /\ last.ret = 11
    /\ sent.len = 11

====
